---- MODULE Spec2Model ----
(***************************************************************************)
(* Model of the dungeon generator of ebiten-zen (generate.go): the grid   *)
(* store (Dungeon, GetTile, SetTile, ResetDungeon), the post-processing   *)
(* passes (AddWalls, CleanWalls, CleanIslands, countIslandPolar) and the  *)
(* three generation strategies with their two-tier deadline protocol.     *)
(* Tiles are stored row-major, Tiles[y][x], as in the source.  Time is an *)
(* integer clock whose unit is DurationBeforeRetry (250 ms).              *)
(***************************************************************************)
EXTENDS Integers, Sequences, FiniteSets, TLC

VARIABLES
    dungeon,  \* the *Dungeon object: a record with the struct's fields;
              \* Rooms is a set of rects, Doors a set of <<rect, direction>>
    now,      \* the wall clock read by time.Now()
    pc,       \* position of the caller: "idle" or a label inside a strategy
    last,     \* the most recent call: its name, arguments and return value
    loc,      \* local variables of the strategy call in flight
    hist,     \* history: the passes applied so far, each with the dungeon
              \* it was applied to
    ghost     \* history: what the attempt in flight has written

vars == <<dungeon, now, pc, last, loc, hist, ghost>>

-----------------------------------------------------------------------------
(* Bounds of the model *)

BandWidth == 4
BandHeight == 2
MaxBorder == 1
MaxWallThickness == 2
MaxThreshold == 3
MaxIslandSize == 5
MaxPasses == 2
MaxTime == 6
MaxCalls == 2
MaxAttempts == 2
WalkRoam == 0
GenWidth == 8
GenHeight == 5
WalkTileCounts == {0, 1, 6}
GridRoomCounts == {0, 2, 3}
MaxRewinds == 2
RoomCounts == {0, 1, 2, 3, 5}
StoreWidth == 4
StoreHeight == 3
WalkWidth == 5
WalkHeight == 2
GridWidth == 6
RoomsWidth == 8
RoomsHeight == 6

-----------------------------------------------------------------------------
(* Tiles, errors, rects *)

DungeonTileVoid == 0
DungeonTileWall == 1
DungeonTilePreWall == 2
DungeonTileFloor == 3

DoorDirectionHorizontal == 0
DoorDirectionVertical == 1

TileKinds == {DungeonTileVoid, DungeonTileWall, DungeonTilePreWall, DungeonTileFloor}

ErrNil == "nil"
ErrOutOfBounds == "Coordinate out of bounds"
ErrNotEnoughSpace == "Not enough space to generate dungeon"
ErrGenerationTimeout == "Took too long to generate dungeon"
ErrFloorAlreadyPlaced == "Floor tile already placed"
\* a Go run-time panic: index out of range
PanicIndex == "panic: index out of range"

Rect(x, y, w, h) == [X |-> x, Y |-> y, W |-> w, H |-> h]

minInt(a, b) == IF a < b THEN a ELSE b
maxInt(a, b) == IF a > b THEN a ELSE b

\* Go's integer division truncates toward zero and % takes the sign of the
\* dividend (b # 0: a zero divisor panics)
GoDiv(a, b) ==
    IF a >= 0 /\ b > 0 THEN a \div b
    ELSE IF a < 0 /\ b > 0 THEN 0 - ((0 - a) \div b)
    ELSE IF a >= 0 THEN 0 - (a \div (0 - b))
    ELSE (0 - a) \div (0 - b)

GoMod(a, b) == a - b * GoDiv(a, b)

\* the values randInt(a, b) = rng.Int()%(b+1-a) + a can return, rng.Int()
\* being any non-negative int; none when b+1-a = 0 (the division panics)
randInt(a, b) ==
    LET n == b + 1 - a
    IN  IF n > 0 THEN a..b
        ELSE IF n < 0 THEN a..(a - n - 1)
        ELSE {}

-----------------------------------------------------------------------------
(* Grid store *)

\* make([][]DungeonTile, height) with rows of width zero values
VoidTiles(width, height) ==
    [y \in 0..(height - 1) |-> [x \in 0..(width - 1) |-> DungeonTileVoid]]

\* ResetDungeon that reallocates the tiles and keeps Rooms and Doors
ResetDungeonTilesOnly(d, width, height) ==
    [d EXCEPT !.Tiles = VoidTiles(width, height)]

ResetDungeon(d, width, height) ==
    [d EXCEPT !.Tiles = VoidTiles(width, height),
              !.Rooms = {},
              !.Doors = {}]

\* The durations are in units of 250 ms: DurationBeforeRetry is 250 ms and
\* DurationBeforeError one second.
NewDungeon(width, height, t) ==
    ResetDungeon(
        [Width |-> width, Height |-> height,
         Tiles |-> <<>>, Rooms |-> {}, Doors |-> {},
         startTime |-> t, DurationBeforeRetry |-> 1,
         genStartTime |-> 0, DurationBeforeError |-> 4,
         Border |-> 2, WallThickness |-> 2,
         MinDoorSize |-> 1, MaxDoorSize |-> 1,
         AllowRandomCorridorOffset |-> FALSE,
         MaxRoomWidth |-> 8, MaxRoomHeight |-> 8,
         MinRoomWidth |-> 4, MinRoomHeight |-> 4,
         MinIslandSize |-> 26],
        width, height)

\* the bounds test shared by GetTile and SetTile
OutOfBand(d, x, y) ==
    LET w == d.Width
        h == d.Height
        b == d.Border
    IN  x >= w - b \/ x < 0 + b \/ y >= h - b \/ y < 0 + b

\* whether Tiles[y][x] is an element of the array
InArray(d, x, y) ==
    y \in DOMAIN d.Tiles /\ x \in DOMAIN d.Tiles[y]

GetTileNoLowY(d, x, y) ==
    LET w == d.Width
        h == d.Height
        b == d.Border
    IN  IF x >= w - b \/ x < 0 + b \/ y >= h - b \/ y < 0
        THEN [tile |-> DungeonTileVoid, err |-> ErrOutOfBounds]
        ELSE [tile |-> d.Tiles[y][x], err |-> ErrNil]

GetTile(d, x, y) ==
    IF OutOfBand(d, x, y)
    THEN [tile |-> DungeonTileVoid, err |-> ErrOutOfBounds]
    ELSE IF ~InArray(d, x, y)
    THEN [tile |-> DungeonTileVoid, err |-> PanicIndex]
    ELSE [tile |-> d.Tiles[y][x], err |-> ErrNil]

SetTileUnchecked(d, x, y, t) ==
    IF ~InArray(d, x, y)
    THEN [d |-> d, err |-> PanicIndex]
    ELSE [d |-> [d EXCEPT !.Tiles[y][x] = t], err |-> ErrNil]

SetTileAllChecked(d, x, y, t) ==
    IF OutOfBand(d, x, y)
    THEN [d |-> d, err |-> ErrOutOfBounds]
    ELSE SetTileUnchecked(d, x, y, t)

SetTile(d, x, y, t) ==
    IF t = DungeonTileFloor /\ OutOfBand(d, x, y)
    THEN [d |-> d, err |-> ErrOutOfBounds]
    ELSE IF ~InArray(d, x, y)
    THEN [d |-> d, err |-> PanicIndex]
    ELSE [d |-> [d EXCEPT !.Tiles[y][x] = t], err |-> ErrNil]

-----------------------------------------------------------------------------
(* Topology analyzer *)

countSurrounding(d, x, y, checkType) ==
    Cardinality({ dd \in (-1..1) \X (-1..1) :
        /\ ~(dd[1] = 0 /\ dd[2] = 0)
        /\ LET g == GetTile(d, x + dd[1], y + dd[2])
           IN  g.err = ErrNil /\ g.tile = checkType })

\* The recursive calls of the closure g of countIslandPolar made from the
\* visited cell (x, y): one per direction of dirs, in that order, each on
\* the visited map m the one before it left; a call that finds its cell
\* of the kind and unvisited marks it and makes the calls of all.
RECURSIVE islandSpread(_, _, _, _, _, _, _)
islandSpread(d, checkType, m, x, y, dirs, all) ==
    IF dirs = <<>> THEN m
    ELSE LET nx == x + dirs[1][1]
             ny == y + dirs[1][2]
             g == GetTile(d, nx, ny)
             c == Rect(nx, ny, 0, 0)
             m1 == IF g.err = ErrNil /\ g.tile = checkType /\ c \notin m
                   THEN islandSpread(d, checkType, m \cup {c}, nx, ny, all, all)
                   ELSE m
         IN  IF m1 = m
             THEN islandSpread(d, checkType, m, x, y, Tail(dirs), all)
             ELSE islandSpread(d, checkType, m1, x, y, Tail(dirs), all)

\* islandVisit without the calls for (x, y-1)
islandVisitNoUp(d, checkType, m, x, y) ==
    islandSpread(d, checkType, m, x, y, <<<<0, 0>>>>,
                 <<<<1, 0>>, <<-1, 0>>, <<0, 1>>>>)

\* the closure g of countIslandPolar called for (x, y) with visited map m
islandVisit(d, checkType, m, x, y) ==
    islandSpread(d, checkType, m, x, y, <<<<0, 0>>>>,
                 <<<<1, 0>>, <<-1, 0>>, <<0, 1>>, <<0, -1>>>>)

countIslandPolarNoUp(d, x, y, checkType) ==
    LET m == islandVisitNoUp(d, checkType, {}, x, y)
    IN  [count |-> Cardinality(m), m |-> m]

countIslandPolar(d, x, y, checkType) ==
    LET m == islandVisit(d, checkType, {}, x, y)
    IN  [count |-> Cardinality(m), m |-> m]

-----------------------------------------------------------------------------
(* Post-processing passes *)

\* The dx, dy loops of AddWalls around the Floor cell (x, y).  Each cell of
\* the stamp is read once and, when Void, written once with Wall, so the
\* loop is the simultaneous update of the stamp's cells.
addWallsStamp(d, x, y, t) ==
    [d EXCEPT !.Tiles =
        [yy \in DOMAIN d.Tiles |-> [xx \in DOMAIN d.Tiles[yy] |->
            LET g == GetTile(d, xx, yy)
            IN  IF /\ xx - x \in (-t)..t
                   /\ yy - y \in (-t)..t
                   /\ g.err = ErrNil
                   /\ g.tile = DungeonTileVoid
                THEN SetTile(d, xx, yy, DungeonTileWall).d.Tiles[yy][xx]
                ELSE d.Tiles[yy][xx]]]]

\* the body of the y, x loops of AddWalls at the i-th cell (row-major)
addWallsCell(d, i, w, t) ==
    LET x == i % w
        y == i \div w
        g == GetTile(d, x, y)
    IN  IF g.err # ErrNil THEN d
        ELSE IF g.tile = DungeonTileFloor
        THEN addWallsStamp(d, x, y, t)
        ELSE IF g.tile = DungeonTilePreWall
        THEN SetTile(d, x, y, DungeonTileWall).d
        ELSE d

\* The loop over the cells lo..hi in order, as the sequence of its two
\* halves.  (The test left = d only makes TLC evaluate the first half
\* before it starts the second.)
RECURSIVE addWallsScan(_, _, _, _, _)
addWallsScan(d, lo, hi, w, t) ==
    IF lo > hi THEN d
    ELSE IF lo = hi THEN addWallsCell(d, lo, w, t)
    ELSE LET mid == (lo + hi) \div 2
             left == addWallsScan(d, lo, mid, w, t)
         IN  IF left = d
             THEN addWallsScan(d, mid + 1, hi, w, t)
             ELSE addWallsScan(left, mid + 1, hi, w, t)

AddWallsKeepBorder(d) ==
    LET w == d.Width
        h == d.Height
        t == d.WallThickness
    IN  addWallsScan(d, 0, w * h - 1, w, t)

AddWalls(d) ==
    LET w == d.Width
        h == d.Height
        t == d.WallThickness
        b == d.Border
        d0 == [d EXCEPT !.Border = 0]
        d1 == addWallsScan(d0, 0, w * h - 1, w, t)
    IN  [d1 EXCEPT !.Border = b]

\* cleanWallsCell without the test tile == DungeonTileWall
cleanWallsCellAnyTile(d, i, w, mustSurroundCount) ==
    LET x == i % w
        y == i \div w
        g == GetTile(d, x, y)
    IN  IF /\ g.err = ErrNil
           /\ g.tile # DungeonTileFloor
           /\ countSurrounding(d, x, y, DungeonTileFloor) >= mustSurroundCount
        THEN SetTile(d, x, y, DungeonTileFloor).d
        ELSE d

\* the body of the y, x loops of CleanWalls at the i-th cell (row-major)
cleanWallsCell(d, i, w, mustSurroundCount) ==
    LET x == i % w
        y == i \div w
        g == GetTile(d, x, y)
    IN  IF /\ g.err = ErrNil
           /\ g.tile = DungeonTileWall
           /\ countSurrounding(d, x, y, DungeonTileFloor) >= mustSurroundCount
        THEN SetTile(d, x, y, DungeonTileFloor).d
        ELSE d

RECURSIVE cleanWallsScan(_, _, _, _, _)
cleanWallsScan(d, lo, hi, w, mustSurroundCount) ==
    IF lo > hi THEN d
    ELSE IF lo = hi THEN cleanWallsCell(d, lo, w, mustSurroundCount)
    ELSE LET mid == (lo + hi) \div 2
             left == cleanWallsScan(d, lo, mid, w, mustSurroundCount)
         IN  IF left = d
             THEN cleanWallsScan(d, mid + 1, hi, w, mustSurroundCount)
             ELSE cleanWallsScan(left, mid + 1, hi, w, mustSurroundCount)

CleanWalls(d, mustSurroundCount) ==
    LET w == d.Width
        h == d.Height
    IN  cleanWallsScan(d, 0, w * h - 1, w, mustSurroundCount)

\* for co := range m { SetTile(co.X, co.Y, Floor) }: the writes are to
\* distinct cells, so the loop is the simultaneous update of the cells of m
\* and the map's iteration order does not show in the result
fillIsland(d, m) ==
    [d EXCEPT !.Tiles =
        [yy \in DOMAIN d.Tiles |-> [xx \in DOMAIN d.Tiles[yy] |->
            IF Rect(xx, yy, 0, 0) \in m
            THEN SetTile(d, xx, yy, DungeonTileFloor).d.Tiles[yy][xx]
            ELSE d.Tiles[yy][xx]]]]

\* cleanIslandsCell with c <= MinIslandSize for c < MinIslandSize
cleanIslandsCellInclusive(st, i) ==
    LET d == st.d
        x == i \div d.Height
        y == i % d.Height
        found == \E k \in 1..Len(st.islands) : Rect(x, y, 0, 0) \in st.islands[k]
    IN  IF found THEN st
        ELSE LET r == countIslandPolar(d, x, y, DungeonTileVoid)
             IN  [d |-> IF r.count <= d.MinIslandSize THEN fillIsland(d, r.m) ELSE d,
                  islands |-> Append(st.islands, r.m)]

\* the body of the x, y loops of CleanIslands at the i-th cell
\* (column-major); st.islands is the list of the maps found so far
cleanIslandsCell(st, i) ==
    LET d == st.d
        x == i \div d.Height
        y == i % d.Height
        found == \E k \in 1..Len(st.islands) : Rect(x, y, 0, 0) \in st.islands[k]
    IN  IF found THEN st
        ELSE LET r == countIslandPolar(d, x, y, DungeonTileVoid)
             IN  [d |-> IF r.count < d.MinIslandSize THEN fillIsland(d, r.m) ELSE d,
                  islands |-> Append(st.islands, r.m)]

RECURSIVE cleanIslandsScan(_, _, _)
cleanIslandsScan(st, lo, hi) ==
    IF lo > hi THEN st
    ELSE IF lo = hi THEN cleanIslandsCell(st, lo)
    ELSE LET mid == (lo + hi) \div 2
             left == cleanIslandsScan(st, lo, mid)
         IN  IF left = st
             THEN cleanIslandsScan(st, mid + 1, hi)
             ELSE cleanIslandsScan(left, mid + 1, hi)

CleanIslands(d) ==
    cleanIslandsScan([d |-> d, islands |-> <<>>], 0, d.Width * d.Height - 1).d

-----------------------------------------------------------------------------
(* The two-tier deadline protocol *)

\* the deadline tests with the retry test first
DeadlineCheckRetryFirst(d, t1, t2) ==
    IF t2 - d.startTime > d.DurationBeforeRetry THEN "retry"
    ELSE IF t1 - d.genStartTime > d.DurationBeforeError THEN "timeout"
    ELSE "go"

\* The tests at the head of each strategy's loop; t1 and t2 are what the
\* two calls of time.Now() return.
DeadlineCheck(d, t1, t2) ==
    IF t1 - d.genStartTime > d.DurationBeforeError THEN "timeout"
    ELSE IF t2 - d.startTime > d.DurationBeforeRetry THEN "retry"
    ELSE "go"

-----------------------------------------------------------------------------
(* GenerateRandomWalk *)

\* walkStampCell, counting the cells that already hold a tile as progress
walkStampCellCounting(st, tx, ty, w, h) ==
    IF st.abort THEN st
    ELSE LET g == GetTile(st.d, tx, ty)
         IN  IF g.err = ErrNil /\ g.tile # DungeonTileVoid
             THEN [st EXCEPT !.tc = @ + 1]
             ELSE LET r == SetTile(st.d, tx, ty, DungeonTileFloor)
                  IN  IF r.err = ErrOutOfBounds
                      THEN [st EXCEPT !.x = GoDiv(w, 2), !.y = GoDiv(h, 2),
                                      !.abort = TRUE]
                      ELSE [st EXCEPT !.d = r.d, !.tc = @ + 1]

\* One iteration of the ty loop of the stamp: st holds the dungeon, tc, the
\* walker and whether goto cont has been taken.
walkStampCell(st, tx, ty, w, h) ==
    IF st.abort THEN st
    ELSE LET g == GetTile(st.d, tx, ty)
         IN  IF g.err = ErrNil /\ g.tile # DungeonTileVoid
             THEN st
             ELSE LET r == SetTile(st.d, tx, ty, DungeonTileFloor)
                  IN  IF r.err = ErrOutOfBounds
                      THEN [st EXCEPT !.x = GoDiv(w, 2), !.y = GoDiv(h, 2),
                                      !.abort = TRUE]
                      ELSE [st EXCEPT !.d = r.d, !.tc = @ + 1]

\* the tx, ty loops from the k-th cell of the stamp on; the stamp has n
\* columns tx = x0, x0+1, ... and n rows ty = y0, y0+1, ...
RECURSIVE walkStamp(_, _, _, _, _, _, _)
walkStamp(st, k, n, x0, y0, w, h) ==
    IF k >= n * n \/ st.abort THEN st
    ELSE LET st1 == walkStampCell(st, x0 + (k \div n), y0 + (k % n), w, h)
         IN  IF st1 = st
             THEN walkStamp(st, k + 1, n, x0, y0, w, h)
             ELSE walkStamp(st1, k + 1, n, x0, y0, w, h)

\* the directions rng.Int() % 8 selects: a new one, or the last one again
walkDirections(dx, dy) ==
    {<<-1, 0>>, <<1, 0>>, <<0, -1>>, <<0, 1>>, <<dx, dy>>}

\* The body of the loop of GenerateRandomWalk with direction dir and stamp
\* size cs; l are the locals.
walkStep(d, l, dir, cs) ==
    LET x == l.x + dir[1]
        y == l.y + dir[2]
        half == GoDiv(cs, 2)
        n == IF half > 0 THEN 2 * half ELSE 0
        st == walkStamp([d |-> d, tc |-> l.tc, x |-> x, y |-> y, abort |-> FALSE],
                        0, n, x - half, y - half, l.w, l.h)
    IN  [d |-> st.d,
         l |-> IF st.abort
               THEN [l EXCEPT !.x = st.x, !.y = st.y, !.dx = dir[1], !.dy = dir[2],
                              !.tc = st.tc]
               ELSE [l EXCEPT !.x = x, !.y = y, !.dx = dir[1], !.dy = dir[2],
                              !.tc = st.tc,
                              !.minX = minInt(@, x), !.maxX = maxInt(@, x),
                              !.minY = minInt(@, y), !.maxY = maxInt(@, y)]]

\* the scan of the midline from cx on; f = <<foundFloor, inGap>>
RECURSIVE walkConvexScan(_, _, _, _, _)
walkConvexScan(d, cx, maxX, cy, f) ==
    IF cx >= maxX THEN FALSE
    ELSE LET g == GetTile(d, cx, cy)
         IN  IF g.err # ErrNil THEN walkConvexScan(d, cx + 1, maxX, cy, f)
             ELSE IF g.tile = DungeonTileFloor
             THEN IF f[1] /\ f[2] THEN TRUE
                  ELSE walkConvexScan(d, cx + 1, maxX, cy, <<TRUE, f[2]>>)
             ELSE IF g.tile = DungeonTileVoid
             THEN walkConvexScan(d, cx + 1, maxX, cy, <<f[1], f[1] \/ f[2]>>)
             ELSE walkConvexScan(d, cx + 1, maxX, cy, f)

\* convX as the check after the loop computes it
walkConvX(d, l) ==
    LET cy == l.minY + GoDiv(l.maxY - l.minY, 2)
    IN  walkConvexScan(d, l.minX, l.maxX, cy, <<FALSE, FALSE>>)

-----------------------------------------------------------------------------
(* Inputs of the passes: dungeons a caller can build with SetTile *)

Cells(d) == (0..(d.Width - 1)) \X (0..(d.Height - 1))

BandCells(d) == { c \in Cells(d) : ~OutOfBand(d, c[1], c[2]) }

\* a dungeon as the caller configures it after NewDungeon
Configured(width, height, b, wt, mis) ==
    [NewDungeon(width, height, 0) EXCEPT !.Border = b,
                                         !.WallThickness = wt,
                                         !.MinIslandSize = mis]

\* the band filled by f, every cell outside the band holding o
WithTiles(d, f, o) ==
    [d EXCEPT !.Tiles =
        [y \in 0..(d.Height - 1) |-> [x \in 0..(d.Width - 1) |->
            IF OutOfBand(d, x, y) THEN o ELSE f[<<x, y>>]]]]

\* The inputs of a pass.  Floor is only ever inside the band; the band is
\* BandWidth x BandHeight and holds the kinds of one of kss, the border
\* ring holds one kind o.
IsPassInput(D, kss, wts, miss) ==
    \E b \in 0..MaxBorder, wt \in wts, mis \in miss, ks \in kss,
       o \in {DungeonTileVoid, DungeonTileWall, DungeonTilePreWall} :
        LET d == Configured(BandWidth + 2 * b, BandHeight + 2 * b, b, wt, mis)
        IN  \E f \in [BandCells(d) -> ks] : D = WithTiles(d, f, o)

NoCall == [op |-> "NewDungeon", err |-> ErrNil]
NoLoc == [tag |-> "none"]
NoGhost == [calls |-> 0, attempts |-> 0, wrote |-> {}, rooms |-> {}, doors |-> {}]

InitPass(kss, wts, miss) ==
    /\ IsPassInput(dungeon, kss, wts, miss)
    /\ now = 0
    /\ pc = "idle"
    /\ last = NoCall
    /\ loc = NoLoc
    /\ hist = <<>>
    /\ ghost = NoGhost

\* a pass applied to the dungeon by the caller
Pass(call, d1) ==
    /\ pc = "idle"
    /\ Len(hist) < MaxPasses
    /\ dungeon' = d1
    /\ last' = call
    /\ hist' = Append(hist, [call |-> call, d |-> dungeon])
    /\ UNCHANGED <<now, pc, loc, ghost>>

PassAddWalls ==
    Pass([op |-> "AddWalls", err |-> ErrNil], AddWalls(dungeon))

PassCleanWalls ==
    \E n \in 0..MaxThreshold :
        Pass([op |-> "CleanWalls", n |-> n, err |-> ErrNil], CleanWalls(dungeon, n))

PassCleanIslands ==
    Pass([op |-> "CleanIslands", err |-> ErrNil], CleanIslands(dungeon))

\* countIslandPolar(x, y, kind) called on its own: a read-only probe
ProbeCountIsland ==
    \E x \in -1..dungeon.Width, y \in -1..dungeon.Height,
       k \in {DungeonTileVoid, DungeonTileFloor} :
        /\ pc = "idle"
        /\ hist = <<>>
        /\ last.op # "countIslandPolar"
        /\ LET r == countIslandPolar(dungeon, x, y, k)
           IN  last' = [op |-> "countIslandPolar", x |-> x, y |-> y, kind |-> k,
                        count |-> r.count, m |-> r.m, err |-> ErrNil]
        /\ UNCHANGED <<dungeon, now, pc, loc, hist, ghost>>

\* SetTile(x, y, t) called by the caller; an index panic leaves the
\* dungeon as it was
CallSetTile ==
    \E x \in -1..dungeon.Width, y \in -1..dungeon.Height, t \in TileKinds :
        LET r == SetTile(dungeon, x, y, t)
        IN  Pass([op |-> "SetTile", x |-> x, y |-> y, t |-> t, err |-> r.err], r.d)

\* ResetDungeon(Width, Height) called by the caller
CallResetDungeon ==
    Pass([op |-> "ResetDungeon", err |-> ErrNil],
         ResetDungeon(dungeon, dungeon.Width, dungeon.Height))

\* GetTile(x, y) called by the caller: a read-only probe
ProbeGetTile ==
    \E x \in -1..dungeon.Width, y \in -1..dungeon.Height :
        /\ pc = "idle"
        /\ last.op # "GetTile"
        /\ LET r == GetTile(dungeon, x, y)
           IN  last' = [op |-> "GetTile", x |-> x, y |-> y,
                        tile |-> r.tile, err |-> r.err]
        /\ UNCHANGED <<dungeon, now, pc, loc, hist, ghost>>

InitAddWalls ==
    InitPass({{DungeonTileVoid, DungeonTileFloor},
              {DungeonTileVoid, DungeonTilePreWall},
              {DungeonTileFloor, DungeonTileWall},
              {DungeonTileFloor, DungeonTilePreWall}},
             0..MaxWallThickness, {MaxIslandSize})
NextAddWalls == PassAddWalls
SpecAddWalls == InitAddWalls /\ [][NextAddWalls]_vars

InitCleanWalls ==
    InitPass({{DungeonTileWall, DungeonTileFloor},
              {DungeonTileWall, DungeonTileVoid},
              {DungeonTileFloor, DungeonTilePreWall}},
             {MaxWallThickness}, {MaxIslandSize})
NextCleanWalls == PassCleanWalls
SpecCleanWalls == InitCleanWalls /\ [][NextCleanWalls]_vars

InitIslands ==
    InitPass({{DungeonTileVoid, DungeonTileFloor},
              {DungeonTileVoid, DungeonTileWall}},
             {MaxWallThickness}, 0..MaxIslandSize)
NextIslands == PassCleanIslands
SpecIslands == InitIslands /\ [][NextIslands]_vars

InitFlood ==
    InitPass({{DungeonTileVoid, DungeonTileFloor},
              {DungeonTileVoid, DungeonTileWall}},
             {MaxWallThickness}, {MaxIslandSize})
NextFlood == ProbeCountIsland
SpecFlood == InitFlood /\ [][NextFlood]_vars

-----------------------------------------------------------------------------
(* Rooms and corridors *)

\* for x in x0..x1-1, y in y0..y1-1: SetTile(x, y, Floor), errors ignored.
\* The cells are distinct, so the loops are one simultaneous update.
setFloorRect(d, x0, x1, y0, y1) ==
    [d EXCEPT !.Tiles =
        [yy \in DOMAIN d.Tiles |-> [xx \in DOMAIN d.Tiles[yy] |->
            IF xx >= x0 /\ xx < x1 /\ yy >= y0 /\ yy < y1
            THEN SetTile(d, xx, yy, DungeonTileFloor).d.Tiles[yy][xx]
            ELSE d.Tiles[yy][xx]]]]

\* dungeon.Doors[r] = cd
putDoor(d, r, cd) ==
    [d EXCEPT !.Doors = { e \in @ : e[1] # r } \cup {<<r, cd>>}]

\* the door rect as both room strategies narrow it for thick walls
doorRect(d, r, cd) ==
    LET k == (GoDiv(d.WallThickness, 2) + GoMod(d.WallThickness, 2)) - 1
    IN  IF d.WallThickness > 1
        THEN IF cd = DoorDirectionHorizontal
             THEN [r EXCEPT !.H = 1, !.Y = @ + k]
             ELSE [r EXCEPT !.W = 1, !.X = @ + k]
        ELSE r

\* the corridor offsets the strategies may draw
offsetsOf(allow, lo, hi) == IF allow THEN randInt(lo, hi) ELSE {0}

-----------------------------------------------------------------------------
(* GenerateDungeonGrid *)

\* countAdj of the layout loop; rooms is the set of coarse cells marked
countAdj(rooms, mw, mh, iy, ix) ==
    (IF iy > 0 /\ <<ix, iy - 1>> \in rooms THEN 1 ELSE 0)
    + (IF iy + 1 < mh /\ <<ix, iy + 1>> \in rooms THEN 1 ELSE 0)
    + (IF ix > 0 /\ <<ix - 1, iy>> \in rooms THEN 1 ELSE 0)
    + (IF ix + 1 < mw /\ <<ix + 1, iy>> \in rooms THEN 1 ELSE 0)

\* previousRooms as one list, in the order the nested loops visit it
RECURSIVE flatRooms(_)
flatRooms(prs) ==
    IF prs = <<>> THEN <<>> ELSE Head(prs) \o flatRooms(Tail(prs))

\* the backtracking search: the first earlier coarse cell with at most
\* two marked neighbours, or none
gridRewind(l) ==
    LET all == flatRooms(l.previousRooms)
        ok == { i \in 1..Len(all) :
                  LET rc == countAdj(l.rooms, l.mw, l.mh, all[i].Y, all[i].X)
                  IN  rc >= 0 /\ rc <= 2 }
    IN  IF ok = {} THEN <<>>
        ELSE <<all[CHOOSE i \in ok : \A j \in ok : i <= j]>>

\* the layout step returning the bounds error of a step off the coarse grid
gridLayoutStepSurfacing(l, dir) ==
    LET sx == l.sx + dir[1]
        sy == l.sy + dir[2]
    IN  IF sx >= l.mw \/ sx <= 0 \/ sy >= l.mh \/ sy <= 0
        THEN [err |-> ErrOutOfBounds, l |-> l]
        ELSE [err |-> ErrNil,
              l |-> [l EXCEPT !.sx = sx, !.sy = sy,
                              !.rooms = @ \cup {<<sx, sy>>},
                              !.previousRooms =
                                  [@ EXCEPT ![Len(@)] = Append(@, Rect(sx, sy, 0, 0))],
                              !.rc = @ - 1]]

\* the layout step that goes on with the same list after backtracking
gridLayoutStepOneList(l, dir) ==
    LET sx == l.sx + dir[1]
        sy == l.sy + dir[2]
        bad == \/ sx >= l.mw \/ sx <= 0 \/ sy >= l.mh \/ sy <= 0
               \/ (countAdj(l.rooms, l.mw, l.mh, sy, sx) >= 2 /\ <<sx, sy>> \in l.rooms)
        back == gridRewind(l)
        tx == IF bad THEN back[1].X ELSE sx
        ty == IF bad THEN back[1].Y ELSE sy
        n == Len(l.previousRooms)
    IN  IF bad /\ back = <<>>
        THEN [err |-> ErrNotEnoughSpace, l |-> l]
        ELSE [err |-> ErrNil,
              l |-> [l EXCEPT !.sx = tx, !.sy = ty,
                              !.rooms = @ \cup {<<tx, ty>>},
                              !.previousRooms =
                                  [@ EXCEPT ![n] = Append(@, Rect(tx, ty, 0, 0))],
                              !.rc = IF bad THEN @ ELSE @ - 1]]

\* the body of the layout loop after the time checks, walking by dir
gridLayoutStep(l, dir) ==
    LET sx == l.sx + dir[1]
        sy == l.sy + dir[2]
        bad == \/ sx >= l.mw \/ sx <= 0 \/ sy >= l.mh \/ sy <= 0
               \/ (countAdj(l.rooms, l.mw, l.mh, sy, sx) >= 2 /\ <<sx, sy>> \in l.rooms)
        back == gridRewind(l)
        tx == IF bad THEN back[1].X ELSE sx
        ty == IF bad THEN back[1].Y ELSE sy
        prs == IF bad THEN Append(l.previousRooms, <<>>) ELSE l.previousRooms
        n == Len(prs)
    IN  IF bad /\ back = <<>>
        THEN [err |-> ErrNotEnoughSpace, l |-> l]
        ELSE [err |-> ErrNil,
              l |-> [l EXCEPT !.sx = tx, !.sy = ty,
                              !.rooms = @ \cup {<<tx, ty>>},
                              !.previousRooms =
                                  [prs EXCEPT ![n] = Append(@, Rect(tx, ty, 0, 0))],
                              !.rc = IF bad THEN @ ELSE @ - 1]]

\* the room of coarse cell cur and its tiles
gridRoom(d, cur) ==
    LET s == d.MaxRoomWidth
        room == Rect(cur.X * s + cur.X * d.WallThickness - d.MaxRoomWidth,
                     cur.Y * s + cur.Y * d.WallThickness - d.MaxRoomWidth,
                     d.MaxRoomWidth, d.MaxRoomWidth)
        d1 == [d EXCEPT !.Rooms = @ \cup {room}]
    IN  setFloorRect(d1, room.X, room.X + room.W, room.Y, room.Y + room.H)

\* the corridor from prev to cur with door size cs and offsets ox, oy
gridCorridor(d, prev, cur, cs, ox, oy) ==
    LET s == d.MaxRoomWidth
        half == GoDiv(d.MaxRoomWidth, 2)
        odd == GoMod(d.MaxRoomWidth, 2)
        wt == d.WallThickness
        dx == cur.X - prev.X
        dy == cur.Y - prev.Y
        x1 == prev.X * s - half
        x2 == cur.X * s - half
        y1 == prev.Y * s - half
        y2 == cur.Y * s - half
        ylo == y1 - GoDiv(cs, 2) - oy
        yhi == y2 + GoDiv(cs, 2) + GoMod(cs, 2) - oy
        xlo == x1 - GoDiv(cs, 2) - ox
        xhi == x2 + GoDiv(cs, 2) + GoMod(cs, 2) - ox
        c == IF dx = -1
             THEN [x1 |-> x2 + half + odd, x2 |-> x2 + half + odd + wt,
                   y1 |-> ylo, y2 |-> yhi, cd |-> DoorDirectionVertical]
             ELSE IF dx = 1
             THEN [x1 |-> x2 - half - wt, x2 |-> x2 - half,
                   y1 |-> ylo, y2 |-> yhi, cd |-> DoorDirectionVertical]
             ELSE IF dy = -1
             THEN [y1 |-> y2 + half + odd, y2 |-> y2 + half + odd + wt,
                   x1 |-> xlo, x2 |-> xhi, cd |-> DoorDirectionHorizontal]
             ELSE IF dy = 1
             THEN [y1 |-> y2 - half - wt, y2 |-> y2 - half,
                   x1 |-> xlo, x2 |-> xhi, cd |-> DoorDirectionHorizontal]
             ELSE [x1 |-> x1, x2 |-> x2, y1 |-> y1, y2 |-> y2,
                   cd |-> DoorDirectionHorizontal]
        cx == Rect(c.x1 + cur.X * wt, c.y1 + cur.Y * wt, c.x2 - c.x1, c.y2 - c.y1)
        d1 == putDoor(d, doorRect(d, cx, c.cd), c.cd)
    IN  setFloorRect(d1, c.x1 + cur.X * wt, c.x2 + cur.X * wt,
                         c.y1 + cur.Y * wt, c.y2 + cur.Y * wt)

-----------------------------------------------------------------------------
(* GenerateDungeon *)

\* the cells placeRoom visits, in the order of its dx, dy loops
roomArea(d, x, y, w, h) ==
    { c \in ((x - d.WallThickness)..(x + w + d.WallThickness - 1))
            \X ((y - d.WallThickness)..(y + h + d.WallThickness - 1)) : TRUE }

Before(c1, c2) == c1[1] < c2[1] \/ (c1[1] = c2[1] /\ c1[2] <= c2[2])

\* placeRoom with a check of the room's own cells only, not of its ring
placeRoomNoRing(d, x, y, w, h) ==
    LET area == roomArea(d, x, y, w, h)
        inside(xx, yy) == ~(xx < x \/ xx > x + w - 1 \/ yy < y \/ yy > y + h - 1)
        stop == { c \in area :
                    /\ inside(c[1], c[2])
                    /\ LET g == GetTile(d, c[1], c[2])
                       IN  g.err # ErrNil \/ g.tile = DungeonTileFloor }
        first == CHOOSE c \in stop : \A c2 \in stop : Before(c, c2)
        placed ==
            [d EXCEPT !.Tiles =
                [yy \in DOMAIN d.Tiles |-> [xx \in DOMAIN d.Tiles[yy] |->
                    IF <<xx, yy>> \notin area THEN d.Tiles[yy][xx]
                    ELSE IF inside(xx, yy)
                    THEN SetTile(d, xx, yy, DungeonTileFloor).d.Tiles[yy][xx]
                    ELSE IF GetTile(d, xx, yy).tile = DungeonTileVoid
                    THEN SetTile(d, xx, yy, DungeonTilePreWall).d.Tiles[yy][xx]
                    ELSE d.Tiles[yy][xx]]],
                      !.Rooms = @ \cup {Rect(x, y, w, h)}]
    IN  IF stop # {}
        THEN [d |-> d,
              err |-> IF GetTile(d, first[1], first[2]).err # ErrNil
                      THEN GetTile(d, first[1], first[2]).err
                      ELSE ErrFloorAlreadyPlaced]
        ELSE [d |-> placed, err |-> ErrNil]

\* placeRoom of GenerateDungeon: the check of the area, then the tiles of
\* the room and of its ring, then dungeon.Rooms
placeRoom(d, x, y, w, h) ==
    LET area == roomArea(d, x, y, w, h)
        stop == { c \in area :
                    LET g == GetTile(d, c[1], c[2])
                    IN  g.err # ErrNil \/ g.tile = DungeonTileFloor }
        first == CHOOSE c \in stop : \A c2 \in stop : Before(c, c2)
        inside(xx, yy) == ~(xx < x \/ xx > x + w - 1 \/ yy < y \/ yy > y + h - 1)
        placed ==
            [d EXCEPT !.Tiles =
                [yy \in DOMAIN d.Tiles |-> [xx \in DOMAIN d.Tiles[yy] |->
                    IF <<xx, yy>> \notin area THEN d.Tiles[yy][xx]
                    ELSE IF inside(xx, yy)
                    THEN SetTile(d, xx, yy, DungeonTileFloor).d.Tiles[yy][xx]
                    ELSE IF GetTile(d, xx, yy).tile = DungeonTileVoid
                    THEN SetTile(d, xx, yy, DungeonTilePreWall).d.Tiles[yy][xx]
                    ELSE d.Tiles[yy][xx]]],
                      !.Rooms = @ \cup {Rect(x, y, w, h)}]
    IN  IF stop # {}
        THEN [d |-> d,
              err |-> IF GetTile(d, first[1], first[2]).err # ErrNil
                      THEN GetTile(d, first[1], first[2]).err
                      ELSE ErrFloorAlreadyPlaced]
        ELSE [d |-> placed, err |-> ErrNil]

\* roomsStep with the room to the left offset by the parent's width
roomsStepParentWidth(d, l, rw, rh, cs, ox, oy, dir, pick) ==
    LET wt == d.WallThickness
        horizontal == dir \in {0, 1}
        cw == IF horizontal THEN wt ELSE cs
        ch == IF horizontal THEN cs ELSE wt
        sx == IF dir = 0 THEN l.sx - wt - l.rw
              ELSE IF dir = 1 THEN l.sx + l.rw + wt ELSE l.sx
        sy == IF dir = 2 THEN l.sy - wt - rh
              ELSE IF dir = 3 THEN l.sy + l.rh + wt ELSE l.sy
        cx == IF dir = 0 THEN sx + rw
              ELSE IF dir = 1 THEN sx - wt
              ELSE l.sx + GoDiv(cw, 2) + ox
        cy == IF dir = 2 THEN sy + rh
              ELSE IF dir = 3 THEN sy - wt
              ELSE l.sy + GoDiv(ch, 2) + oy
        cd == IF horizontal THEN DoorDirectionVertical ELSE DoorDirectionHorizontal
        r == placeRoom(d, sx, sy, rw, rh)
        c == l.previousRooms[pick]
        d1 == putDoor(r.d, doorRect(r.d, Rect(cx, cy, cw, ch), cd), cd)
    IN  IF r.err # ErrNil
        THEN [d |-> d,
              l |-> [l EXCEPT !.sx = c.X, !.sy = c.Y, !.rw = c.W, !.rh = c.H]]
        ELSE [d |-> setFloorRect(d1, cx, cx + cw, cy, cy + ch),
              l |-> [l EXCEPT !.sx = sx, !.sy = sy, !.rw = rw, !.rh = rh,
                              !.previousRooms = Append(@, Rect(sx, sy, rw, rh)),
                              !.rc = @ - 1]]

\* The body of the loop of GenerateDungeon after the time checks: a room of
\* rw x rh towards dir with door size cs and offsets ox, oy; pick is the
\* room a rollback returns to.
roomsStep(d, l, rw, rh, cs, ox, oy, dir, pick) ==
    LET wt == d.WallThickness
        horizontal == dir \in {0, 1}
        cw == IF horizontal THEN wt ELSE cs
        ch == IF horizontal THEN cs ELSE wt
        sx == IF dir = 0 THEN l.sx - wt - rw
              ELSE IF dir = 1 THEN l.sx + l.rw + wt ELSE l.sx
        sy == IF dir = 2 THEN l.sy - wt - rh
              ELSE IF dir = 3 THEN l.sy + l.rh + wt ELSE l.sy
        cx == IF dir = 0 THEN sx + rw
              ELSE IF dir = 1 THEN sx - wt
              ELSE l.sx + GoDiv(cw, 2) + ox
        cy == IF dir = 2 THEN sy + rh
              ELSE IF dir = 3 THEN sy - wt
              ELSE l.sy + GoDiv(ch, 2) + oy
        cd == IF horizontal THEN DoorDirectionVertical ELSE DoorDirectionHorizontal
        r == placeRoom(d, sx, sy, rw, rh)
        c == l.previousRooms[pick]
        d1 == putDoor(r.d, doorRect(r.d, Rect(cx, cy, cw, ch), cd), cd)
    IN  IF r.err # ErrNil
        THEN [d |-> d,
              l |-> [l EXCEPT !.sx = c.X, !.sy = c.Y, !.rw = c.W, !.rh = c.H]]
        ELSE [d |-> setFloorRect(d1, cx, cx + cw, cy, cy + ch),
              l |-> [l EXCEPT !.sx = sx, !.sy = sy, !.rw = rw, !.rh = rh,
                              !.previousRooms = Append(@, Rect(sx, sy, rw, rh)),
                              !.rc = @ - 1]]

-----------------------------------------------------------------------------
(* The generation calls, one action per step of the code *)

Running == "running"

ChangedCells(d1, d2) == { c \in Cells(d1) : d1.Tiles[c[2]][c[1]] # d2.Tiles[c[2]][c[1]] }

\* bookkeeping of what the attempt in flight has written so far
Wrote(d1, d2) ==
    [ghost EXCEPT !.wrote = @ \cup ChangedCells(d1, d2),
                  !.rooms = @ \cup (d2.Rooms \ d1.Rooms),
                  !.doors = @ \cup (d2.Doors \ d1.Doors)]

\* the values a later call of time.Now() can return
Later == { t \in {now, now + 1} : t <= MaxTime }

\* Time passes.  Only the generation calls read the clock and the caller's
\* other calls take no time, so time passing between those, or after the
\* last generation call, is left out.
Tick ==
    /\ now < MaxTime
    /\ pc # "idle" \/ (ghost.calls < MaxCalls /\ hist = <<>>)
    /\ now' = now + 1
    /\ UNCHANGED <<dungeon, pc, last, loc, hist, ghost>>

\* bookkeeping of the start of attempt number n: b.d0 is the dungeon as
\* g() resets it, b.d the dungeon when g() reaches its loop
Attempt(n, b) ==
    [ghost EXCEPT !.attempts = minInt(n, MaxAttempts),
                  !.wrote = ChangedCells(b.d0, b.d),
                  !.rooms = b.d.Rooms \ b.d0.Rooms,
                  !.doors = b.d.Doors \ b.d0.Doors]

\* A generation call is entered: genStartTime is taken and g() runs up to
\* its loop, leaving the dungeon b.d and the locals b.l.
Call(op, arg, label, b) ==
    /\ pc = "idle"
    /\ ghost.calls < MaxCalls
    /\ dungeon' = b.d
    /\ pc' = label
    /\ last' = [op |-> op, arg |-> arg, err |-> Running]
    /\ loc' = b.l
    /\ hist' = <<>>
    /\ ghost' = [Attempt(1, b) EXCEPT !.calls = @ + 1]
    /\ UNCHANGED now

\* return g(): the attempt is abandoned and g() runs again up to its loop
Retry(b) ==
    /\ dungeon' = b.d
    /\ loc' = b.l
    /\ ghost' = Attempt(ghost.attempts + 1, b)
    /\ UNCHANGED <<pc, last, hist>>

\* the call returns err
Return(err) ==
    /\ pc' = "idle"
    /\ last' = [last EXCEPT !.err = err]
    /\ loc' = NoLoc

\* g() of GenerateRandomWalk up to its loop
walkBegin(d, tileCount, w, h) ==
    [d0 |-> ResetDungeon(d, d.Width, d.Height),
     d |-> ResetDungeon(d, d.Width, d.Height),
     l |-> [tileCount |-> tileCount, w |-> w, h |-> h,
            x |-> GoDiv(w, 2), y |-> GoDiv(h, 2),
            minX |-> w, maxX |-> 0, minY |-> h, maxY |-> 0,
            dx |-> 0, dy |-> 0, tc |-> 0]]

GenerateRandomWalk ==
    \E tileCount \in WalkTileCounts :
        LET d0 == [dungeon EXCEPT !.genStartTime = now]
            b == walkBegin(d0, tileCount, d0.Width, d0.Height)
        IN  Call("GenerateRandomWalk", tileCount, "walk_loop", b)

\* the walker stays near the array
InRoam(l) ==
    /\ l.x \in (0 - WalkRoam)..(l.w - 1 + WalkRoam)
    /\ l.y \in (0 - WalkRoam)..(l.h - 1 + WalkRoam)

\* one iteration of the loop of GenerateRandomWalk
walkIterate ==
    /\ pc = "walk_loop"
    /\ loc.tc < loc.tileCount
    /\ \E t2 \in Later :
        /\ now' = t2
        /\ LET c == DeadlineCheck(dungeon, now, t2)
           IN  \/ /\ c = "timeout"
                  /\ Return(ErrGenerationTimeout)
                  /\ UNCHANGED <<dungeon, hist, ghost>>
               \/ /\ c = "retry"
                  /\ LET b == walkBegin(dungeon, loc.tileCount, loc.w, loc.h)
                     IN  Retry(b)
               \/ /\ c = "go"
                  /\ \E dir \in walkDirections(loc.dx, loc.dy),
                        cs \in randInt(dungeon.MinDoorSize, dungeon.MaxDoorSize) :
                        LET r == walkStep(dungeon, loc, dir, cs)
                        IN  /\ InRoam(r.l)
                            /\ dungeon' = r.d
                            /\ loc' = r.l
                            /\ ghost' = Wrote(dungeon, r.d)
                  /\ UNCHANGED <<pc, last, hist>>

\* the convexity check after the loop
walkFinish ==
    /\ pc = "walk_loop"
    /\ loc.tc >= loc.tileCount
    /\ IF walkConvX(dungeon, loc)
       THEN /\ Return(ErrNil)
            /\ UNCHANGED <<dungeon, hist, ghost>>
       ELSE LET b == walkBegin(dungeon, loc.tileCount, loc.w, loc.h)
            IN  Retry(b)
    /\ UNCHANGED now

\* g() of GenerateDungeonGrid up to its layout loop, entered at time t
gridBegin(d, roomCount, mw, mh, t) ==
    [d0 |-> ResetDungeon(d, d.Width, d.Height),
     d |-> [ResetDungeon(d, d.Width, d.Height) EXCEPT !.startTime = t],
     l |-> [roomCount |-> roomCount, mw |-> mw, mh |-> mh,
            sx |-> GoDiv(mw, 2), sy |-> GoDiv(mh, 2),
            rooms |-> {}, previousRooms |-> << <<>> >>,
            rc |-> roomCount, k |-> 0]]

GenerateDungeonGrid ==
    \E roomCount \in GridRoomCounts :
        LET d0 == [dungeon EXCEPT !.genStartTime = now]
            s == d0.MaxRoomWidth
            mw == GoDiv(d0.Width - d0.Border * 2, s + d0.WallThickness) + 1
            mh == GoDiv(d0.Height - d0.Border * 2, s + d0.WallThickness) + 1
            b == gridBegin(d0, roomCount, mw, mh, now)
        IN  Call("GenerateDungeonGrid", roomCount, "grid_loop", b)

\* one iteration of the layout loop of GenerateDungeonGrid
gridIterate ==
    /\ pc = "grid_loop"
    /\ loc.rc > 0
    /\ \E t2 \in Later :
        /\ now' = t2
        /\ LET c == DeadlineCheck(dungeon, now, t2)
           IN  \/ /\ c = "timeout"
                  /\ Return(ErrGenerationTimeout)
                  /\ UNCHANGED <<dungeon, hist, ghost>>
               \/ /\ c = "retry"
                  /\ LET b == gridBegin(dungeon, loc.roomCount, loc.mw, loc.mh, t2)
                     IN  Retry(b)
               \/ /\ c = "go"
                  /\ Len(loc.previousRooms) <= MaxRewinds
                  /\ \E dir \in {<<-1, 0>>, <<1, 0>>, <<0, -1>>, <<0, 1>>} :
                        LET r == gridLayoutStep(loc, dir)
                        IN  IF r.err # ErrNil
                            THEN Return(r.err)
                            ELSE /\ loc' = r.l
                                 /\ UNCHANGED <<pc, last>>
                  /\ UNCHANGED <<dungeon, hist, ghost>>

\* the rooms of previousRooms in build order, each with its predecessor
gridJobs(prs) ==
    LET jobsOf(L) == [i \in 1..Len(L) |->
                        [cur |-> L[i], i |-> i - 1,
                         prev |-> IF i > 1 THEN L[i - 1] ELSE L[i]]]
    IN  flatRooms([p \in 1..Len(prs) |-> jobsOf(prs[p])])

\* one iteration of the build loops of GenerateDungeonGrid
gridBuildRoom ==
    /\ pc = "grid_loop"
    /\ loc.rc <= 0
    /\ loc.k < Len(gridJobs(loc.previousRooms))
    /\ LET job == gridJobs(loc.previousRooms)[loc.k + 1]
           d1 == gridRoom(dungeon, job.cur)
       IN  \E cs \in randInt(dungeon.MinDoorSize, dungeon.MaxDoorSize) :
           \E ox \in offsetsOf(dungeon.AllowRandomCorridorOffset,
                               GoDiv(0 - (dungeon.MaxRoomWidth - cs), 2),
                               GoDiv(dungeon.MaxRoomWidth - cs, 2)),
              oy \in offsetsOf(dungeon.AllowRandomCorridorOffset,
                               GoDiv(0 - (dungeon.MaxRoomWidth - cs), 2),
                               GoDiv(dungeon.MaxRoomWidth - cs, 2)) :
               LET d2 == IF job.i = 0 THEN d1
                         ELSE gridCorridor(d1, job.prev, job.cur, cs, ox, oy)
               IN  /\ dungeon' = d2
                   /\ ghost' = Wrote(dungeon, d2)
    /\ loc' = [loc EXCEPT !.k = @ + 1]
    /\ UNCHANGED <<now, pc, last, hist>>

\* GenerateDungeonGrid returns nil after the build loops
gridReturn ==
    /\ pc = "grid_loop"
    /\ loc.rc <= 0
    /\ loc.k >= Len(gridJobs(loc.previousRooms))
    /\ Return(ErrNil)
    /\ UNCHANGED <<dungeon, now, hist, ghost>>

\* g() of GenerateDungeon up to its loop, entered at time t: the first
\* room is rw x rh and the result of its placeRoom is dropped
roomsBegin(d, roomCount, t, rw, rh) ==
    LET d0 == [ResetDungeon(d, d.Width, d.Height) EXCEPT !.startTime = t]
        sx == GoDiv(d.Width, 2)
        sy == GoDiv(d.Height, 2)
    IN  [d0 |-> d0,
         d |-> placeRoom(d0, sx, sy, rw, rh).d,
         l |-> [roomCount |-> roomCount, sx |-> sx, sy |-> sy,
                rw |-> rw, rh |-> rh,
                previousRooms |-> <<Rect(sx, sy, rw, rh)>>,
                rc |-> roomCount - 1]]

\* the capacity GenerateDungeon compares roomCount with
roomsCapacity(d) ==
    LET s == d.MaxRoomWidth
        mw == GoDiv(d.Width - d.Border * 2, s)
        mh == GoDiv(d.Height - d.Border * 2, s)
    IN  (mw - 2) * (mh - 2)

\* the capacity check made after a reset of the dungeon
roomsEntryResetFirst(d, roomCount) ==
    [full |-> roomCount > roomsCapacity(d),
     d |-> ResetDungeon(d, d.Width, d.Height)]

\* GenerateDungeon up to its capacity check: whether roomCount is refused,
\* and the dungeon at that point
roomsEntry(d, roomCount) ==
    [full |-> roomCount > roomsCapacity(d), d |-> d]

\* GenerateDungeon: the capacity check returns before any attempt
GenerateDungeon ==
    \E roomCount \in RoomCounts :
        LET e == roomsEntry([dungeon EXCEPT !.genStartTime = now], roomCount)
            d0 == e.d
        IN  IF e.full
            THEN /\ pc = "idle"
                 /\ ghost.calls < MaxCalls
                 /\ dungeon' = d0
                 /\ last' = [op |-> "GenerateDungeon", arg |-> roomCount,
                             err |-> ErrNotEnoughSpace]
                 /\ hist' = <<>>
                 /\ ghost' = [ghost EXCEPT !.calls = @ + 1, !.attempts = 0]
                 /\ UNCHANGED <<now, pc, loc>>
            ELSE \E rw \in randInt(d0.MinRoomWidth, d0.MaxRoomWidth),
                    rh \in randInt(d0.MinRoomHeight, d0.MaxRoomHeight) :
                     LET b == roomsBegin(d0, roomCount, now, rw, rh)
                     IN  Call("GenerateDungeon", roomCount, "rooms_loop", b)

\* one iteration of the loop of GenerateDungeon
roomsIterate ==
    /\ pc = "rooms_loop"
    /\ loc.rc > 0
    /\ \E t2 \in Later :
        /\ now' = t2
        /\ LET c == DeadlineCheck(dungeon, now, t2)
           IN  \/ /\ c = "timeout"
                  /\ Return(ErrGenerationTimeout)
                  /\ UNCHANGED <<dungeon, hist, ghost>>
               \/ /\ c = "retry"
                  /\ \E rw \in randInt(dungeon.MinRoomWidth, dungeon.MaxRoomWidth),
                        rh \in randInt(dungeon.MinRoomHeight, dungeon.MaxRoomHeight) :
                        LET b == roomsBegin(dungeon, loc.roomCount, t2, rw, rh)
                        IN  Retry(b)
               \/ /\ c = "go"
                  /\ \E rw \in randInt(dungeon.MinRoomWidth, dungeon.MaxRoomWidth),
                        rh \in randInt(dungeon.MinRoomHeight, dungeon.MaxRoomHeight),
                        cs \in randInt(dungeon.MinDoorSize, dungeon.MaxDoorSize),
                        dir \in 0..3, pick \in 1..Len(loc.previousRooms) :
                     \E oy \in offsetsOf(dungeon.AllowRandomCorridorOffset,
                                         GoDiv(0 - cs, 2),
                                         GoDiv(minInt(rh, loc.rh), 2) - GoDiv(cs, 2)),
                        ox \in offsetsOf(dungeon.AllowRandomCorridorOffset,
                                         GoDiv(0 - cs, 2),
                                         GoDiv(minInt(rw, loc.rw), 2) - GoDiv(cs, 2)) :
                        LET r == roomsStep(dungeon, loc, rw, rh, cs, ox, oy, dir, pick)
                        IN  /\ dungeon' = r.d
                            /\ loc' = r.l
                            /\ ghost' = Wrote(dungeon, r.d)
                  /\ UNCHANGED <<pc, last, hist>>

\* GenerateDungeon returns nil after its loop
roomsReturn ==
    /\ pc = "rooms_loop"
    /\ loc.rc <= 0
    /\ Return(ErrNil)
    /\ UNCHANGED <<dungeon, now, hist, ghost>>

\* a dungeon as the caller sets it up for generation
Setups ==
    { [NewDungeon(GenWidth, GenHeight, 0) EXCEPT
          !.Border = 1, !.WallThickness = 1,
          !.MinDoorSize = 2, !.MaxDoorSize = 2,
          !.MinRoomWidth = 1, !.MaxRoomWidth = 1,
          !.MinRoomHeight = 1, !.MaxRoomHeight = 1,
          !.MinIslandSize = 2] }

Init ==
    /\ dungeon \in Setups
    /\ now = 0
    /\ pc = "idle"
    /\ last = NoCall
    /\ loc = NoLoc
    /\ hist = <<>>
    /\ ghost = NoGhost

\* the caller prepares the new dungeon by hand
SetupSetTile ==
    /\ ghost.calls = 0
    /\ hist = <<>>
    /\ CallSetTile

\* the caller post-processes: any passes on a dungeon built by hand, one
\* pass after a generation call
FollowUp == ghost.calls = 0 \/ hist = <<>>

CallAddWalls == FollowUp /\ PassAddWalls

CallCleanWalls == FollowUp /\ PassCleanWalls

CallCleanIslands == FollowUp /\ PassCleanIslands

Next ==
    \/ Tick
    \/ SetupSetTile
    \/ CallAddWalls
    \/ CallCleanWalls
    \/ CallCleanIslands
    \/ GenerateRandomWalk
    \/ walkIterate
    \/ walkFinish
    \/ GenerateDungeonGrid
    \/ gridIterate
    \/ gridBuildRoom
    \/ gridReturn
    \/ GenerateDungeon
    \/ roomsIterate
    \/ roomsReturn

Spec == Init /\ [][Next]_vars

\* the tile store on its own: a new dungeon, written and read by the caller
InitStore ==
    /\ \E b \in 0..MaxBorder :
        dungeon = Configured(StoreWidth, StoreHeight, b, MaxWallThickness, MaxIslandSize)
    /\ now = 0
    /\ pc = "idle"
    /\ last = NoCall
    /\ loc = NoLoc
    /\ hist = <<>>
    /\ ghost = NoGhost
NextStore == CallSetTile \/ CallResetDungeon \/ ProbeGetTile
SpecStore == InitStore /\ [][NextStore]_vars

-----------------------------------------------------------------------------
(* Vocabulary of the claims about the passes *)

\* the pass applied last and the dungeon it was applied to
LastPass == hist[Len(hist)].call
BeforeLast == hist[Len(hist)].d

\* the last two entries of hist are the same call
SameCallTwice(op) ==
    /\ Len(hist) >= 2
    /\ hist[Len(hist)].call = hist[Len(hist) - 1].call
    /\ LastPass.op = op

BeforeFirstOfTwo == hist[Len(hist) - 1].d

TileAt(d, c) == d.Tiles[c[2]][c[1]]

Chebyshev(c1, c2) ==
    maxInt(IF c1[1] > c2[1] THEN c1[1] - c2[1] ELSE c2[1] - c1[1],
           IF c1[2] > c2[2] THEN c1[2] - c2[2] ELSE c2[2] - c1[2])

Adjacent4(c1, c2) ==
    \/ c1[1] = c2[1] /\ (c1[2] = c2[2] + 1 \/ c2[2] = c1[2] + 1)
    \/ c1[2] = c2[2] /\ (c1[1] = c2[1] + 1 \/ c2[1] = c1[1] + 1)

\* S closed under 4-neighbour steps through the cells of ok
RECURSIVE Closure(_, _)
Closure(S, ok) ==
    LET N == S \cup { c \in ok : \E s \in S : Adjacent4(s, c) }
    IN  IF N = S THEN S ELSE Closure(N, ok)

\* the in-band cells holding kind that 4-neighbour steps through such cells
\* reach from c
Component(d, c, kind) ==
    LET ok == { b \in BandCells(d) : TileAt(d, b) = kind }
    IN  IF c \in ok THEN Closure({c}, ok) ELSE {}

RowMajorIndex(d, c) == c[2] * d.Width + c[1]

-----------------------------------------------------------------------------
(* C1 *)

GenerationOps == {"GenerateRandomWalk", "GenerateDungeonGrid", "GenerateDungeon"}

\* C1: with Border constant, in every state reachable by SetTile, the three
\* generation calls (returned or in flight, succeeding or failing), CleanWalls,
\* CleanIslands and AddWalls, every cell holding Floor lies inside the band
\* Border <= x < Width-Border, Border <= y < Height-Border.
C1_FloorInBand ==
    \A c \in Cells(dungeon) :
        TileAt(dungeon, c) = DungeonTileFloor => ~OutOfBand(dungeon, c[1], c[2])

\* a generation call has returned nil, a pass has followed it, and Floor
\* reaches the left and the upper edge of the band of a dungeon with a border
C1_Witness ==
    /\ pc = "idle"
    /\ ghost.calls >= 1
    /\ hist # <<>>
    /\ dungeon.Border > 0
    /\ \E c \in Cells(dungeon) :
        TileAt(dungeon, c) = DungeonTileFloor /\ c[1] = dungeon.Border
    /\ \E c \in Cells(dungeon) :
        TileAt(dungeon, c) = DungeonTileFloor /\ c[2] = dungeon.Border

-----------------------------------------------------------------------------
(* C2 *)

\* C2: SetTile(x, y, Floor) with (x, y) outside the band returns
\* ErrOutOfBounds and leaves every tile as it was; SetTile of a tile other
\* than Floor at a coordinate inside the array, the border ring included,
\* returns nil, stores the tile at (x, y) and leaves every other cell as it
\* was.
C2_SetTileContract ==
    (hist # <<>> /\ LastPass.op = "SetTile") =>
        LET b == BeforeLast
            c == LastPass
        IN  /\ (c.t = DungeonTileFloor /\ OutOfBand(b, c.x, c.y)) =>
                    (c.err = ErrOutOfBounds /\ dungeon = b)
            /\ (c.t # DungeonTileFloor /\ InArray(b, c.x, c.y)) =>
                    /\ c.err = ErrNil
                    /\ TileAt(dungeon, <<c.x, c.y>>) = c.t
                    /\ \A o \in Cells(b) \ {<<c.x, c.y>>} :
                           TileAt(dungeon, o) = TileAt(b, o)
                    /\ dungeon = [b EXCEPT !.Tiles = dungeon.Tiles]

\* Floor was refused at a cell of the border ring, then Wall was written
\* to that cell
C2_Witness ==
    /\ Len(hist) = 2
    /\ hist[1].call.op = "SetTile" /\ LastPass.op = "SetTile"
    /\ hist[1].call.t = DungeonTileFloor
    /\ hist[1].call.err = ErrOutOfBounds
    /\ InArray(dungeon, LastPass.x, LastPass.y)
    /\ LastPass.x = hist[1].call.x /\ LastPass.y = hist[1].call.y
    /\ LastPass.t = DungeonTileWall
    /\ TileAt(dungeon, <<LastPass.x, LastPass.y>>) = DungeonTileWall

-----------------------------------------------------------------------------
(* C3 *)

\* the tile SetTile wrote last at (x, y) since the last reset, Void if none
LastWritten(x, y) ==
    LET idx == { i \in 1..Len(hist) :
                    \/ hist[i].call.op = "ResetDungeon"
                    \/ /\ hist[i].call.op = "SetTile"
                       /\ hist[i].call.x = x /\ hist[i].call.y = y
                       /\ hist[i].call.err = ErrNil }
        i == CHOOSE k \in idx : \A j \in idx : j <= k
    IN  IF idx = {} \/ hist[i].call.op = "ResetDungeon"
        THEN DungeonTileVoid
        ELSE hist[i].call.t

\* C3: GetTile(x, y) returns ErrOutOfBounds exactly when (x, y) is outside
\* the band; otherwise it returns nil and the tile at Tiles[y][x], which is
\* the tile SetTile wrote last at (x, y), Void if none since the last reset.
C3_GetTileContract ==
    last.op = "GetTile" =>
        /\ last.err = ErrOutOfBounds <=> OutOfBand(dungeon, last.x, last.y)
        /\ ~OutOfBand(dungeon, last.x, last.y) =>
            /\ last.err = ErrNil
            /\ last.tile = dungeon.Tiles[last.y][last.x]
            /\ last.tile = LastWritten(last.x, last.y)

\* GetTile read a cell of the band of a dungeon with a border that was
\* written twice, with another tile the second time, away from the diagonal
C3_Witness ==
    /\ last.op = "GetTile"
    /\ last.err = ErrNil
    /\ dungeon.Border > 0
    /\ last.x # last.y
    /\ Len(hist) = 2
    /\ hist[1].call.op = "SetTile" /\ hist[2].call.op = "SetTile"
    /\ hist[1].call.x = last.x /\ hist[1].call.y = last.y
    /\ hist[2].call.x = last.x /\ hist[2].call.y = last.y
    /\ hist[1].call.t = DungeonTileFloor
    /\ hist[2].call.t = DungeonTileWall
    /\ last.tile = DungeonTileWall

-----------------------------------------------------------------------------
(* C4 *)

\* C4: every attempt of every strategy starts from a Width x Height array of
\* Void with no Rooms and no Doors: while a generation call is in flight,
\* and when it has returned nil, the cells that are not Void, the Rooms and
\* the Doors are among those the attempt entered last has written.
C4_OnlyFinalAttempt ==
    (/\ last.op \in GenerationOps
     /\ hist = <<>>
     /\ pc # "idle" \/ last.err = ErrNil) =>
        /\ DOMAIN dungeon.Tiles = 0..(dungeon.Height - 1)
        /\ \A y \in DOMAIN dungeon.Tiles :
               DOMAIN dungeon.Tiles[y] = 0..(dungeon.Width - 1)
        /\ \A c \in Cells(dungeon) :
               TileAt(dungeon, c) # DungeonTileVoid => c \in ghost.wrote
        /\ dungeon.Rooms \subseteq ghost.rooms
        /\ dungeon.Doors \subseteq ghost.doors

\* the second generation call on the dungeon has returned nil after an
\* abandoned attempt, with tiles, rooms and doors written
C4_Witness ==
    /\ pc = "idle"
    /\ last.op \in GenerationOps
    /\ last.err = ErrNil
    /\ hist = <<>>
    /\ ghost.calls = 2
    /\ ghost.attempts >= 2
    /\ ghost.wrote # {}
    /\ dungeon.Rooms # {}
    /\ dungeon.Doors # {}

-----------------------------------------------------------------------------
(* C5 *)

\* C5: after AddWalls no cell is PreWall; a cell is Wall iff it was Wall or
\* PreWall before, or was Void within Chebyshev distance WallThickness of a
\* Floor cell (anywhere in the array); every other cell is unchanged, and so
\* is every other field of the dungeon, Border included.
C5_AddWallsResult ==
    (hist # <<>> /\ LastPass.op = "AddWalls") =>
        LET b == BeforeLast
        IN  /\ dungeon = [b EXCEPT !.Tiles = dungeon.Tiles]
            /\ \A c \in Cells(b) :
                LET old == TileAt(b, c)
                    new == TileAt(dungeon, c)
                    stamped ==
                        /\ old = DungeonTileVoid
                        /\ \E f \in Cells(b) :
                            /\ TileAt(b, f) = DungeonTileFloor
                            /\ Chebyshev(c, f) <= b.WallThickness
                IN  /\ new # DungeonTilePreWall
                    /\ new = DungeonTileWall <=>
                        (old \in {DungeonTileWall, DungeonTilePreWall} \/ stamped)
                    /\ new # DungeonTileWall => new = old

\* AddWalls has run with a border: a Void cell of the border ring became
\* Wall, a Void cell stayed Void and a PreWall cell became Wall
C5_Witness ==
    /\ hist # <<>>
    /\ LastPass.op = "AddWalls"
    /\ BeforeLast.Border = 1
    /\ \E c \in Cells(dungeon) \ BandCells(dungeon) :
        TileAt(BeforeLast, c) = DungeonTileVoid /\ TileAt(dungeon, c) = DungeonTileWall
    /\ \E c \in Cells(dungeon) :
        TileAt(BeforeLast, c) = DungeonTileVoid /\ TileAt(dungeon, c) = DungeonTileVoid
    /\ \E c \in Cells(dungeon) :
        TileAt(BeforeLast, c) = DungeonTilePreWall /\ TileAt(dungeon, c) = DungeonTileWall

-----------------------------------------------------------------------------
(* C6 *)

\* C6 as claimed: CleanWalls(n) run twice in succession yields the grid that
\* running it once yields.
C6_CleanWallsIdempotent ==
    SameCallTwice("CleanWalls") => dungeon = BeforeLast

\* C6 amended: a second CleanWalls(n) changes nothing but Wall cells of the
\* band into Floor, and only cells with an 8-neighbour scanned after them
\* that the first pass converted, or one scanned before them that the second
\* pass converted; it changes nothing when the first pass changed nothing.
C6_SecondPassOnlyCascades ==
    SameCallTwice("CleanWalls") =>
        LET g0 == BeforeFirstOfTwo
            g1 == BeforeLast
            g2 == dungeon
            converted(a, b, c) ==
                TileAt(a, c) = DungeonTileWall /\ TileAt(b, c) = DungeonTileFloor
        IN  /\ g2 = [g1 EXCEPT !.Tiles = g2.Tiles]
            /\ g1 = g0 => g2 = g1
            /\ \A c \in Cells(g1) :
                TileAt(g2, c) # TileAt(g1, c) =>
                    /\ c \in BandCells(g1)
                    /\ converted(g1, g2, c)
                    /\ \E e \in BandCells(g1) :
                        /\ Chebyshev(c, e) = 1
                        /\ \/ /\ RowMajorIndex(g1, e) > RowMajorIndex(g1, c)
                              /\ converted(g0, g1, e)
                           \/ /\ RowMajorIndex(g1, e) < RowMajorIndex(g1, c)
                              /\ converted(g1, g2, e)

\* CleanWalls(n) has run twice and the second pass converted a cell
C6_Witness ==
    /\ SameCallTwice("CleanWalls")
    /\ dungeon # BeforeLast
    /\ \E c \in BandCells(dungeon) :
        /\ TileAt(BeforeLast, c) = DungeonTileWall
        /\ TileAt(dungeon, c) = DungeonTileFloor

-----------------------------------------------------------------------------
(* C7 *)

\* C7: CleanIslands run twice in succession yields the grid that running it
\* once yields.
C7_CleanIslandsIdempotent ==
    SameCallTwice("CleanIslands") => dungeon = BeforeLast

\* CleanIslands has run twice, the first run filled an island and left Void
C7_Witness ==
    /\ SameCallTwice("CleanIslands")
    /\ BeforeFirstOfTwo # BeforeLast
    /\ \E c \in BandCells(dungeon) : TileAt(dungeon, c) = DungeonTileVoid

-----------------------------------------------------------------------------
(* C8 *)

\* C8: after CleanIslands every cell of a 4-connected component of in-band
\* Void cells smaller than MinIslandSize holds Floor, and every other cell
\* (not Void, out of band, or in a component of size >= MinIslandSize) is
\* unchanged, as is every other field of the dungeon.
C8_CleanIslandsResult ==
    (hist # <<>> /\ LastPass.op = "CleanIslands") =>
        LET b == BeforeLast
        IN  /\ dungeon = [b EXCEPT !.Tiles = dungeon.Tiles]
            /\ \A c \in Cells(b) :
                LET comp == Component(b, c, DungeonTileVoid)
                IN  IF comp # {} /\ Cardinality(comp) < b.MinIslandSize
                    THEN TileAt(dungeon, c) = DungeonTileFloor
                    ELSE TileAt(dungeon, c) = TileAt(b, c)

\* CleanIslands has filled one component and kept another
C8_Witness ==
    /\ hist # <<>>
    /\ LastPass.op = "CleanIslands"
    /\ \E c \in BandCells(dungeon) :
        /\ TileAt(BeforeLast, c) = DungeonTileVoid
        /\ TileAt(dungeon, c) = DungeonTileFloor
        /\ Cardinality(Component(BeforeLast, c, DungeonTileVoid)) >= 2
    /\ \E c \in BandCells(dungeon) :
        /\ TileAt(BeforeLast, c) = DungeonTileVoid
        /\ TileAt(dungeon, c) = DungeonTileVoid

-----------------------------------------------------------------------------
(* C9 *)

\* C9: countIslandPolar(x, y, kind) returns the cells reachable from (x, y)
\* by 4-neighbour steps through in-band cells holding kind (none when the
\* start is out of band or not of that kind) and their number; on an
\* all-Void grid, from an in-band start, these are all the
\* (Width-2*Border)*(Height-2*Border) cells of the band.
C9_FloodFill ==
    last.op = "countIslandPolar" =>
        LET comp == Component(dungeon, <<last.x, last.y>>, last.kind)
        IN  /\ last.m = { Rect(c[1], c[2], 0, 0) : c \in comp }
            /\ last.count = Cardinality(comp)
            /\ (/\ \A c \in Cells(dungeon) : TileAt(dungeon, c) = DungeonTileVoid
                /\ last.kind = DungeonTileVoid
                /\ ~OutOfBand(dungeon, last.x, last.y))
               => last.count = (dungeon.Width - 2 * dungeon.Border)
                                * (dungeon.Height - 2 * dungeon.Border)

\* a flood fill inside a border that found a component of three or more
\* cells, reaching a cell above its start, and not the whole band
C9_Witness ==
    /\ last.op = "countIslandPolar"
    /\ dungeon.Border = 1
    /\ last.count >= 3
    /\ last.count < Cardinality(BandCells(dungeon))
    /\ \E r \in last.m : r.Y < last.y

-----------------------------------------------------------------------------
(* C10 *)

\* a step of the loop of a strategy: it begins with the deadline checks
LoopStep == walkIterate \/ gridIterate \/ roomsIterate

\* C10: no step of a generation call in flight changes genStartTime, a
\* retry included; and a loop step whose first check finds
\* now - genStartTime > DurationBeforeError returns ErrGenerationTimeout
\* without resetting the dungeon or entering another attempt, whatever the
\* retry check would find.
C10_DeadlineFirst ==
    [][/\ pc # "idle" => dungeon'.genStartTime = dungeon.genStartTime
       /\ (LoopStep /\ now - dungeon.genStartTime > dungeon.DurationBeforeError) =>
            /\ pc' = "idle"
            /\ last'.err = ErrGenerationTimeout
            /\ dungeon' = dungeon
            /\ ghost' = ghost]_vars

\* a call has returned ErrGenerationTimeout from its second or a later
\* attempt at a time when the retry check was due as well
C10_Witness ==
    /\ pc = "idle"
    /\ last.op \in GenerationOps
    /\ last.err = ErrGenerationTimeout
    /\ ghost.attempts >= 2
    /\ now - dungeon.startTime > dungeon.DurationBeforeRetry
    /\ now - dungeon.genStartTime > dungeon.DurationBeforeError

-----------------------------------------------------------------------------
(* C11 *)

\* a generation call is entered and g() runs for the first time
EntryStep == pc = "idle" /\ pc' # "idle"

\* return g(): from the retry check of a loop, or from the convexity check
RetryStep ==
    \/ LoopStep /\ DeadlineCheck(dungeon, now, now') = "retry"
    \/ walkFinish /\ pc' # "idle"

\* C11: every attempt of every strategy, the first one and each retry,
\* records the time of its entry as startTime, so that the retry check
\* measures the attempt in flight only.
C11_FreshAttemptStart ==
    [][(EntryStep \/ RetryStep) => dungeon'.startTime = now']_vars

-----------------------------------------------------------------------------
(* The random walk on its own *)

\* The dungeons the walk is run on: the settings of NewDungeon on a grid
\* whose band is one cell, and a borderless grid with door sizes 1 to 2.
WalkSetups ==
    { [NewDungeon(WalkWidth, WalkWidth, 0) EXCEPT !.MinIslandSize = 2],
      [NewDungeon(WalkWidth, WalkHeight, 0) EXCEPT
          !.Border = 0, !.MinDoorSize = 1, !.MaxDoorSize = 2,
          !.MinIslandSize = 2] }

InitWalk ==
    /\ dungeon \in WalkSetups
    /\ now = 0
    /\ pc = "idle"
    /\ last = NoCall
    /\ loc = NoLoc
    /\ hist = <<>>
    /\ ghost = NoGhost

NextWalk ==
    \/ Tick
    \/ GenerateRandomWalk
    \/ walkIterate
    \/ walkFinish

SpecWalk == InitWalk /\ [][NextWalk]_vars

-----------------------------------------------------------------------------
(* C12 *)

\* The wall clock keeps advancing and a call in flight keeps executing:
\* the calls are synchronous and single-threaded.
SpecWalkLive ==
    SpecWalk /\ WF_vars(Tick) /\ WF_vars(walkIterate) /\ WF_vars(walkFinish)

\* the clock of the model still reaches the hard deadline of the call
DeadlineInReach == dungeon.genStartTime + dungeon.DurationBeforeError < MaxTime

\* C12: every generation call, whatever its argument, eventually returns.
C12_CallsReturn == (pc # "idle" /\ DeadlineInReach) ~> (pc = "idle")

-----------------------------------------------------------------------------
(* C13 *)

\* what a generation call may hand to its caller
CallResults == {ErrNil, ErrNotEnoughSpace, ErrGenerationTimeout}

\* a loop step that has passed both deadline checks
BodyStep == LoopStep /\ DeadlineCheck(dungeon, now, now') = "go"

\* C13: a generation call returns nil, ErrNotEnoughSpace or
\* ErrGenerationTimeout only.  A loop body either goes on with the same
\* attempt, whatever SetTile or placeRoom reported inside it, or ends the
\* call at once with ErrNotEnoughSpace, without reset or further attempt;
\* a body of GenerateDungeon that uses up none of the room budget has
\* rolled back: the dungeon is as before and the walk is at an earlier room.
C13_OnlyThreeResults ==
    [][/\ last'.op \in GenerationOps => last'.err \in CallResults \cup {Running}
       /\ BodyStep =>
            \/ pc' = pc /\ last' = last
            \/ /\ pc' = "idle"
               /\ last'.err = ErrNotEnoughSpace
               /\ dungeon' = dungeon
               /\ ghost' = ghost
       /\ (BodyStep /\ pc = "rooms_loop" /\ loc'.rc = loc.rc) =>
            /\ dungeon' = dungeon
            /\ loc'.previousRooms = loc.previousRooms
            /\ \E i \in 1..Len(loc.previousRooms) :
                 Rect(loc'.sx, loc'.sy, loc'.rw, loc'.rh) = loc.previousRooms[i]]_vars

\* GenerateDungeonGrid has returned ErrNotEnoughSpace from its first
\* attempt, before the retry check was due
C13_Witness ==
    /\ pc = "idle"
    /\ last.op = "GenerateDungeonGrid"
    /\ last.err = ErrNotEnoughSpace
    /\ ghost.attempts = 1
    /\ now - dungeon.startTime <= dungeon.DurationBeforeRetry

-----------------------------------------------------------------------------
(* C14 *)

\* the settings of the walk of the spec's scenario
ScenarioWalk ==
    /\ dungeon.MinDoorSize = 1
    /\ dungeon.MaxDoorSize = 1
    /\ dungeon.Border = 2
    /\ dungeon.WallThickness = 2

\* C14: with door sizes 1 to 1, Border 2, WallThickness 2 and a positive
\* tileCount that fits in the band, a step of the walk that lands on a Void
\* cell of the band places Floor there and counts it, which is what lets
\* the call reach tileCount and return nil.
C14_StampsProgress ==
    [][(/\ BodyStep
        /\ pc = "walk_loop"
        /\ ScenarioWalk
        /\ loc.tileCount > 0
        /\ loc.tileCount <= Cardinality(BandCells(dungeon))
        /\ ~OutOfBand(dungeon, loc'.x, loc'.y)
        /\ TileAt(dungeon, <<loc'.x, loc'.y>>) = DungeonTileVoid) =>
            /\ TileAt(dungeon', <<loc'.x, loc'.y>>) = DungeonTileFloor
            /\ loc'.tc > loc.tc]_vars

-----------------------------------------------------------------------------
(* C15 *)

FloorCells(d) == { c \in Cells(d) : TileAt(d, c) = DungeonTileFloor }

\* C15: when GenerateRandomWalk has returned nil, all Floor cells form one
\* 4-connected region, whatever the door sizes.
C15_FloorConnected ==
    (pc = "idle" /\ last.op = "GenerateRandomWalk" /\ last.err = ErrNil) =>
        \A c \in FloorCells(dungeon) :
            Component(dungeon, c, DungeonTileFloor) = FloorCells(dungeon)

-----------------------------------------------------------------------------
(* The grid strategy on its own *)

\* Square dungeons whose coarse grid has two usable cells on each axis:
\* rooms of one tile with walls of one tile and of two tiles.
GridSetups ==
    { [NewDungeon(GridWidth, GridWidth, 0) EXCEPT
          !.Border = 1, !.WallThickness = 1,
          !.MinDoorSize = 1, !.MaxDoorSize = 2,
          !.MinRoomWidth = 1, !.MaxRoomWidth = 1,
          !.MinRoomHeight = 1, !.MaxRoomHeight = 1],
      [NewDungeon(GridWidth + 2, GridWidth + 2, 0) EXCEPT
          !.Border = 1, !.WallThickness = 2,
          !.MinDoorSize = 1, !.MaxDoorSize = 1,
          !.MinRoomWidth = 1, !.MaxRoomWidth = 1,
          !.MinRoomHeight = 1, !.MaxRoomHeight = 1] }

InitGrid ==
    /\ dungeon \in GridSetups
    /\ now = 0
    /\ pc = "idle"
    /\ last = NoCall
    /\ loc = NoLoc
    /\ hist = <<>>
    /\ ghost = NoGhost

NextGrid ==
    \/ Tick
    \/ GenerateDungeonGrid
    \/ gridIterate
    \/ gridBuildRoom
    \/ gridReturn

SpecGrid == InitGrid /\ [][NextGrid]_vars

-----------------------------------------------------------------------------
(* C16 *)

\* C16: when GenerateDungeonGrid(roomCount) with roomCount >= 1 has
\* returned nil, Rooms holds exactly roomCount rects.
C16_ExactRoomCount ==
    (/\ pc = "idle"
     /\ last.op = "GenerateDungeonGrid"
     /\ last.err = ErrNil
     /\ last.arg >= 1) => Cardinality(dungeon.Rooms) = last.arg

-----------------------------------------------------------------------------
(* C17 *)

\* the corridors the build loops carve: the rooms with a predecessor
Corridors == { j \in 1..Len(gridJobs(loc.previousRooms)) :
                 gridJobs(loc.previousRooms)[j].i > 0 }

UnitStep(prev, cur) ==
    \/ cur.Y = prev.Y /\ (cur.X = prev.X + 1 \/ cur.X = prev.X - 1)
    \/ cur.X = prev.X /\ (cur.Y = prev.Y + 1 \/ cur.Y = prev.Y - 1)

\* the direction the claim expects for a corridor from prev to cur
DirectionOf(prev, cur) ==
    IF cur.X # prev.X THEN DoorDirectionVertical ELSE DoorDirectionHorizontal

\* C17: every corridor of GenerateDungeonGrid joins two coarse cells one
\* step apart in exactly one axis, so the fallback branch is never taken,
\* and the door it records is DoorDirectionVertical when the cells differ
\* in x and DoorDirectionHorizontal when they differ in y.
C17_DoorFollowsDelta ==
    [][pc = "grid_loop" =>
        /\ \A j \in Corridors :
             UnitStep(gridJobs(loc.previousRooms)[j].prev,
                      gridJobs(loc.previousRooms)[j].cur)
        /\ (gridBuildRoom /\ loc.k + 1 \in Corridors) =>
             LET job == gridJobs(loc.previousRooms)[loc.k + 1]
             IN  /\ \A e \in dungeon'.Doors \ dungeon.Doors :
                       e[2] = DirectionOf(job.prev, job.cur)
                 /\ \E e \in dungeon'.Doors :
                       e[2] = DirectionOf(job.prev, job.cur)]_vars

\* the build loops of GenerateDungeonGrid have finished after the layout
\* backtracked, and doors of both directions are recorded
C17_Witness ==
    /\ pc = "grid_loop"
    /\ loc.rc <= 0
    /\ loc.k >= Len(gridJobs(loc.previousRooms))
    /\ Len(loc.previousRooms) >= 2
    /\ \E e \in dungeon.Doors : e[2] = DoorDirectionVertical
    /\ \E e \in dungeon.Doors : e[2] = DoorDirectionHorizontal

-----------------------------------------------------------------------------
(* C18 *)

\* the cells a rect covers
RectCells(r) == (r.X..(r.X + r.W - 1)) \X (r.Y..(r.Y + r.H - 1))

\* C18: when a generation strategy has returned nil, every cell covered by
\* a rect of Rooms or of Doors lies inside the grid and holds Floor.
C18_RectsAreFloor ==
    (/\ pc = "idle"
     /\ last.op \in GenerationOps
     /\ last.err = ErrNil
     /\ hist = <<>>) =>
        \A r \in dungeon.Rooms \cup { e[1] : e \in dungeon.Doors } :
            \A c \in RectCells(r) :
                c \in Cells(dungeon) /\ TileAt(dungeon, c) = DungeonTileFloor

-----------------------------------------------------------------------------
(* C19 *)

\* GenerateDungeon(n) is called
RoomsCalled(n) ==
    /\ pc = "idle"
    /\ ghost'.calls = ghost.calls + 1
    /\ last'.op = "GenerateDungeon"
    /\ last'.arg = n

\* C19: GenerateDungeon(roomCount) with roomCount above (mw-2)*(mh-2)
\* returns ErrNotEnoughSpace and leaves Tiles, Rooms and Doors as they were
\* before the call.
C19_RefusalChangesNothing ==
    [][\A n \in RoomCounts :
         (RoomsCalled(n) /\ n > roomsCapacity(dungeon)) =>
            /\ pc' = "idle"
            /\ last'.err = ErrNotEnoughSpace
            /\ dungeon'.Tiles = dungeon.Tiles
            /\ dungeon'.Rooms = dungeon.Rooms
            /\ dungeon'.Doors = dungeon.Doors]_vars

\* GenerateDungeon has refused a roomCount on a dungeon that an earlier
\* call had filled with rooms and a door
C19_Witness ==
    /\ pc = "idle"
    /\ last.op = "GenerateDungeon"
    /\ last.err = ErrNotEnoughSpace
    /\ last.arg > roomsCapacity(dungeon)
    /\ hist = <<>>
    /\ ghost.calls = 2
    /\ Cardinality(dungeon.Rooms) >= 2
    /\ dungeon.Doors # {}
    /\ FloorCells(dungeon) # {}

-----------------------------------------------------------------------------
(* C20 *)

\* the capacity the claim states: band width over MaxRoomWidth times band
\* height over MaxRoomHeight
StatedCapacity(d) ==
    GoDiv(d.Width - 2 * d.Border, d.MaxRoomWidth)
        * GoDiv(d.Height - 2 * d.Border, d.MaxRoomHeight)

\* C20: GenerateDungeon(roomCount) returns ErrNotEnoughSpace, before any
\* placement, exactly when roomCount exceeds
\* ((Width - 2*Border) / MaxRoomWidth) * ((Height - 2*Border) / MaxRoomHeight).
C20_StatedCapacity ==
    (last.op = "GenerateDungeon" /\ hist = <<>>) =>
        /\ last.err = ErrNotEnoughSpace <=> last.arg > StatedCapacity(dungeon)
        /\ last.err = ErrNotEnoughSpace => ghost.attempts = 0

-----------------------------------------------------------------------------
(* The organic strategy on its own *)

\* The dungeons GenerateDungeon is run on: one whose rooms are wider and
\* higher than the band; one with thick walls on which a first room of
\* size 2 does not fit at the centre while one of size 1 does; one without
\* border whose rooms of size 1 to 2 fit, with corridor offsets; and one
\* without border that has place for six rooms of size 1 on three columns
\* and two rows.
RoomsSetups ==
    { [NewDungeon(RoomsWidth, RoomsHeight - 1, 0) EXCEPT
          !.Border = 1, !.WallThickness = 1,
          !.MinRoomWidth = 8, !.MaxRoomWidth = 8,
          !.MinRoomHeight = 8, !.MaxRoomHeight = 8],
      [NewDungeon(RoomsWidth, RoomsWidth, 0) EXCEPT
          !.Border = 1, !.WallThickness = 2,
          !.MinRoomWidth = 1, !.MaxRoomWidth = 2,
          !.MinRoomHeight = 1, !.MaxRoomHeight = 2],
      [NewDungeon(RoomsWidth, RoomsHeight, 0) EXCEPT
          !.Border = 0, !.WallThickness = 1,
          !.AllowRandomCorridorOffset = TRUE,
          !.MinRoomWidth = 1, !.MaxRoomWidth = 2,
          !.MinRoomHeight = 1, !.MaxRoomHeight = 2],
      [NewDungeon(RoomsWidth - 1, RoomsHeight, 0) EXCEPT
          !.Border = 0, !.WallThickness = 1,
          !.MinRoomWidth = 1, !.MaxRoomWidth = 1,
          !.MinRoomHeight = 1, !.MaxRoomHeight = 1] }

InitRooms ==
    /\ dungeon \in RoomsSetups
    /\ now = 0
    /\ pc = "idle"
    /\ last = NoCall
    /\ loc = NoLoc
    /\ hist = <<>>
    /\ ghost = NoGhost

NextRooms ==
    \/ Tick
    \/ GenerateDungeon
    \/ roomsIterate
    \/ roomsReturn

SpecRooms == InitRooms /\ [][NextRooms]_vars

-----------------------------------------------------------------------------
(* C21 *)

\* no room the settings allow is as small as the band
NoRoomFits(d) ==
    /\ d.MinRoomWidth = d.MaxRoomWidth
    /\ d.MinRoomWidth > d.Width - 2 * d.Border
    /\ d.MinRoomHeight > d.Height - 2 * d.Border

\* C21: where no room fits in the grid, a GenerateDungeon(roomCount >= 1)
\* that passes the capacity check never returns nil; it ends in
\* ErrGenerationTimeout.
C21_NoFitTimesOut ==
    (/\ NoRoomFits(dungeon)
     /\ last.op = "GenerateDungeon"
     /\ last.arg >= 1
     /\ last.arg <= roomsCapacity(dungeon)
     /\ pc = "idle") => last.err = ErrGenerationTimeout

-----------------------------------------------------------------------------
(* C22 *)

\* the cells of the midline the check after the loop reads
MidlineScanned(d, l) ==
    { cx \in l.minX..(l.maxX - 1) :
        GetTile(d, cx, l.minY + GoDiv(l.maxY - l.minY, 2)).err = ErrNil }

MidlineTile(d, l, cx) ==
    GetTile(d, cx, l.minY + GoDiv(l.maxY - l.minY, 2)).tile

\* Floor, then a Void gap, then Floor again on the scanned midline
MidlinePattern(d, l) ==
    \E a, b, c \in MidlineScanned(d, l) :
        /\ a < b /\ b < c
        /\ MidlineTile(d, l, a) = DungeonTileFloor
        /\ MidlineTile(d, l, b) = DungeonTileVoid
        /\ MidlineTile(d, l, c) = DungeonTileFloor

\* the step that leaves the loop of GenerateRandomWalk with the budget met
FinishStep ==
    /\ pc = "walk_loop"
    /\ loc.tc >= loc.tileCount
    /\ now' = now

\* C22: GenerateRandomWalk returns nil only when the scanned midline of the
\* bounding box has no Floor, Void gap, Floor pattern: the attempt with the
\* pattern is retried, the attempt without it is accepted.
C22_PatternIsRetried ==
    [][FinishStep =>
        ((pc' = "idle" /\ last'.err = ErrNil) <=> ~MidlinePattern(dungeon, loc))]_vars

-----------------------------------------------------------------------------
(* C23 *)

\* the squares of side cs that contain the cell (x, y)
SquaresAround(x, y, cs) ==
    { ((ox..(ox + cs - 1)) \X (oy..(oy + cs - 1))) :
        ox \in (x - cs + 1)..x, oy \in (y - cs + 1)..y }

\* C23: a step of the random walk with size cs writes Floor on a square of
\* exactly cs x cs cells that contains the walker's cell: nothing outside the
\* square changes and, where the square lies in the band, none of its cells
\* is left Void; with cs = 1 the square is the walker's own cell.
C23_StampIsSquare ==
    (pc = "walk_loop" /\ loc.tc < loc.tileCount) =>
        \A dir \in walkDirections(loc.dx, loc.dy),
           cs \in randInt(dungeon.MinDoorSize, dungeon.MaxDoorSize) :
            LET r == walkStep(dungeon, loc, dir, cs)
            IN  \E S \in SquaresAround(loc.x + dir[1], loc.y + dir[2], cs) :
                    /\ ChangedCells(dungeon, r.d) \subseteq S
                    /\ S \subseteq BandCells(dungeon) =>
                         \A c \in S : TileAt(r.d, c) # DungeonTileVoid

-----------------------------------------------------------------------------
(* C24 *)

\* the cells the tx, ty loops of a stamp of size cs around (x, y) range over
StampCells(x, y, cs) ==
    ((x - GoDiv(cs, 2))..(x + GoDiv(cs, 2) - 1))
        \X ((y - GoDiv(cs, 2))..(y + GoDiv(cs, 2) - 1))

\* C24: a step of the random walk whose stamp includes a cell where the
\* Floor write is out of bounds puts the walker back on the centre of the
\* grid and leaves the progress counter as it was before the step, also when
\* part of the stamp lay in the band.
C24_RejectedStepNoProgress ==
    (pc = "walk_loop" /\ loc.tc < loc.tileCount) =>
        \A dir \in walkDirections(loc.dx, loc.dy),
           cs \in randInt(dungeon.MinDoorSize, dungeon.MaxDoorSize) :
            LET r == walkStep(dungeon, loc, dir, cs)
            IN  (\E c \in StampCells(loc.x + dir[1], loc.y + dir[2], cs) :
                    OutOfBand(dungeon, c[1], c[2]))
                => /\ r.l.x = GoDiv(loc.w, 2)
                   /\ r.l.y = GoDiv(loc.h, 2)
                   /\ r.l.tc = loc.tc

-----------------------------------------------------------------------------
(* C25 *)

\* C25: at the head of every iteration of the loop of GenerateRandomWalk the
\* progress counter is the number of Floor cells in the grid, so that when
\* the call has returned nil the grid holds at least tileCount Floor cells.
C25_CounterIsFloorCount ==
    /\ pc = "walk_loop" => loc.tc = Cardinality(FloorCells(dungeon))
    /\ (pc = "idle" /\ last.op = "GenerateRandomWalk" /\ last.err = ErrNil)
         => Cardinality(FloorCells(dungeon)) >= last.arg

\* a call for 6 tiles has returned nil with 8 Floor cells: the last stamp
\* went past the budget
C25_Witness ==
    /\ pc = "idle"
    /\ last.op = "GenerateRandomWalk"
    /\ last.err = ErrNil
    /\ last.arg = 6
    /\ Cardinality(FloorCells(dungeon)) = 8

-----------------------------------------------------------------------------
(* C26 *)

\* C26: when GenerateDungeonGrid has returned nil, the corridors join the
\* rooms of consecutive coarse cells across the whole gap between them, so
\* all Floor cells of the dungeon form one 4-connected region, for odd and
\* even MaxRoomWidth and every WallThickness >= 1.
C26_GridFloorConnected ==
    (pc = "idle" /\ last.op = "GenerateDungeonGrid" /\ last.err = ErrNil) =>
        \A c \in FloorCells(dungeon) :
            Component(dungeon, c, DungeonTileFloor) = FloorCells(dungeon)

-----------------------------------------------------------------------------
(* C27 *)

\* the rooms placeRoom is asked for: an origin in the grid and a size the
\* settings allow
PlaceCandidates(d) ==
    (0..(d.Width - 1)) \X (0..(d.Height - 1))
        \X randInt(d.MinRoomWidth, d.MaxRoomWidth)
        \X randInt(d.MinRoomHeight, d.MaxRoomHeight)

\* the footprint of the room extended by WallThickness on every side
ExtendedFootprint(d, q) ==
    ((q[1] - d.WallThickness)..(q[1] + q[3] + d.WallThickness - 1))
        \X ((q[2] - d.WallThickness)..(q[2] + q[4] + d.WallThickness - 1))

HoldsFloor(d, c) ==
    ~OutOfBand(d, c[1], c[2]) /\ TileAt(d, c) = DungeonTileFloor

\* what placeRoom leaves behind when it returns nil
PlacedAsStated(d, q, r) ==
    /\ r.d.Rooms = d.Rooms \cup {Rect(q[1], q[2], q[3], q[4])}
    /\ \A c \in Cells(d) :
        IF c \in RectCells(Rect(q[1], q[2], q[3], q[4]))
        THEN TileAt(r.d, c) = DungeonTileFloor
        ELSE IF c \in ExtendedFootprint(d, q) /\ TileAt(d, c) = DungeonTileVoid
        THEN TileAt(r.d, c) = DungeonTilePreWall
        ELSE TileAt(r.d, c) = TileAt(d, c)

\* placeRoom does not read the clock: the loop heads of an attempt that no
\* time has passed in show every dungeon an attempt can build
PlaceRoomCalled == pc = "rooms_loop" /\ now = dungeon.startTime

\* The statement read cell by cell: ErrFloorAlreadyPlaced whenever a cell of
\* the extended footprint holds Floor, ErrOutOfBounds whenever one lies
\* outside the band, nothing written in both cases, and the stated tiles on
\* success.
C27_PlaceRoomAsStated ==
    PlaceRoomCalled =>
        \A q \in PlaceCandidates(dungeon) :
            LET r == placeRoom(dungeon, q[1], q[2], q[3], q[4])
                E == ExtendedFootprint(dungeon, q)
            IN  /\ (\E c \in E : HoldsFloor(dungeon, c))
                      => r.err = ErrFloorAlreadyPlaced /\ r.d = dungeon
                /\ (\E c \in E : OutOfBand(dungeon, c[1], c[2]))
                      => r.err = ErrOutOfBounds /\ r.d = dungeon
                /\ r.err = ErrNil => PlacedAsStated(dungeon, q, r)

\* C27: placeRoom returns an error, before writing anything, exactly when a
\* cell of the footprint extended by WallThickness holds Floor or lies
\* outside the band: the error of the first such cell in the order of the
\* scan (columns, then rows), ErrOutOfBounds for a cell outside the band and
\* ErrFloorAlreadyPlaced for Floor.  Otherwise it returns nil with Floor on
\* the footprint, PreWall on the margin cells that were Void, the other
\* margin cells untouched and the rect added to Rooms.
C27_PlaceRoomContract ==
    PlaceRoomCalled =>
        \A q \in PlaceCandidates(dungeon) :
            LET r == placeRoom(dungeon, q[1], q[2], q[3], q[4])
                E == ExtendedFootprint(dungeon, q)
                bad == { c \in E : HoldsFloor(dungeon, c)
                                     \/ OutOfBand(dungeon, c[1], c[2]) }
            IN  IF bad = {}
                THEN r.err = ErrNil /\ PlacedAsStated(dungeon, q, r)
                ELSE /\ r.d = dungeon
                     /\ \E c \in bad :
                         /\ \A c2 \in bad : Before(c, c2)
                         /\ r.err = IF OutOfBand(dungeon, c[1], c[2])
                                    THEN ErrOutOfBounds
                                    ELSE ErrFloorAlreadyPlaced

\* with two rooms placed, one candidate is refused for Floor although part
\* of it lies outside the band, one is refused for the band although it
\* covers Floor, and one is placed on a margin that is no longer all Void
C27_Witness ==
    /\ PlaceRoomCalled
    /\ Cardinality(dungeon.Rooms) >= 2
    /\ \E q \in PlaceCandidates(dungeon) :
        /\ placeRoom(dungeon, q[1], q[2], q[3], q[4]).err = ErrFloorAlreadyPlaced
        /\ \E c \in ExtendedFootprint(dungeon, q) : OutOfBand(dungeon, c[1], c[2])
    /\ \E q \in PlaceCandidates(dungeon) :
        /\ placeRoom(dungeon, q[1], q[2], q[3], q[4]).err = ErrOutOfBounds
        /\ \E c \in ExtendedFootprint(dungeon, q) : HoldsFloor(dungeon, c)
    /\ \E q \in PlaceCandidates(dungeon) :
        /\ placeRoom(dungeon, q[1], q[2], q[3], q[4]).err = ErrNil
        /\ \E c \in ExtendedFootprint(dungeon, q) \cap Cells(dungeon) :
            TileAt(dungeon, c) = DungeonTilePreWall

-----------------------------------------------------------------------------
(* C28 *)

\* the number of cells between two rects along x and along y; negative
\* where their extents overlap
GapX(a, b) == maxInt(b.X - (a.X + a.W), a.X - (b.X + b.W))

GapY(a, b) == maxInt(b.Y - (a.Y + a.H), a.Y - (b.Y + b.H))

\* the room the loop positions the next one against
Parent(l) == Rect(l.sx, l.sy, l.rw, l.rh)

\* C28: during an attempt of GenerateDungeon any two distinct rects of Rooms
\* are WallThickness or more cells apart along x or along y, a room placed
\* next to its parent is exactly WallThickness cells from it, and the cells
\* of a room stay Floor: none is overwritten with PreWall.
C28_RoomsKeepApart ==
    [][pc' = "rooms_loop" =>
        /\ \A a, b \in dungeon'.Rooms :
             a # b => \/ GapX(a, b) >= dungeon'.WallThickness
                      \/ GapY(a, b) >= dungeon'.WallThickness
        /\ \A a \in dungeon'.Rooms : \A c \in RectCells(a) :
             TileAt(dungeon', c) = DungeonTileFloor
        /\ (pc = "rooms_loop" /\ dungeon'.Rooms # dungeon.Rooms
              /\ dungeon.Rooms \subseteq dungeon'.Rooms) =>
             \A a \in dungeon'.Rooms \ dungeon.Rooms :
                \/ GapX(Parent(loc), a) = dungeon.WallThickness
                     /\ GapY(Parent(loc), a) < 0
                \/ GapY(Parent(loc), a) = dungeon.WallThickness
                     /\ GapX(Parent(loc), a) < 0]_vars

\* two rooms of different widths are placed, the later one to the left of
\* its parent
C28_Witness ==
    /\ pc = "rooms_loop"
    /\ Len(loc.previousRooms) = 2
    /\ loc.previousRooms[1] \in dungeon.Rooms
    /\ loc.previousRooms[2] \in dungeon.Rooms
    /\ loc.previousRooms[1].W # loc.previousRooms[2].W
    /\ loc.previousRooms[2].X < loc.previousRooms[1].X

-----------------------------------------------------------------------------
(* C29 *)

\* the doors are no wider than the smallest room
DoorsFitRooms(d) ==
    d.MaxDoorSize <= d.MinRoomWidth /\ d.MaxDoorSize <= d.MinRoomHeight

\* C29: when GenerateDungeon(roomCount >= 1) has returned nil on a dungeon
\* whose doors are no wider than its smallest room, Rooms holds roomCount
\* rooms and the corridors join every room to the one it was offset from,
\* so all Floor cells form one 4-connected region.
C29_RoomsJoined ==
    (/\ pc = "idle"
     /\ last.op = "GenerateDungeon"
     /\ last.err = ErrNil
     /\ last.arg >= 1
     /\ DoorsFitRooms(dungeon)) =>
        /\ Cardinality(dungeon.Rooms) = last.arg
        /\ \A c \in FloorCells(dungeon) :
             Component(dungeon, c, DungeonTileFloor) = FloorCells(dungeon)

-----------------------------------------------------------------------------
(* C30 *)

\* a body of the loop of GenerateDungeon whose placeRoom has failed: no rect
\* is appended to previousRooms
FailedPlacement ==
    /\ BodyStep
    /\ pc = "rooms_loop"
    /\ loc'.previousRooms = loc.previousRooms

\* C30: a failed placement in GenerateDungeon is a local retry: the grid is
\* not reset, no new attempt starts, the number of rooms still to place is
\* unchanged, and the next candidate is positioned against a room that was
\* placed successfully, a rect of Rooms.
C30_LocalRetry ==
    [][FailedPlacement =>
        /\ pc' = "rooms_loop"
        /\ dungeon' = dungeon
        /\ ghost'.attempts = ghost.attempts
        /\ loc'.rc = loc.rc
        /\ Parent(loc') \in dungeon.Rooms]_vars

====
